---- MODULE Spec2Model ----
(***************************************************************************)
(* Time accounting and approval engine of the payroll front end.           *)
(*                                                                         *)
(* Units.  A time of day "HH:MM" is the pair <<h, m>>; the empty or absent *)
(* string is NoTime.  Hour amounts (horas, normal, extra, total) are exact *)
(* rationals in the code; here they are integers counted in HourUnits,     *)
(* 1/300 of an hour, so that one minute (5 units) and one hundredth of an  *)
(* hour (3 units, the grain of toFixed(2)) are both whole.  A calendar     *)
(* date is a day number, day 0 being a Monday.                             *)
(***************************************************************************)
EXTENDS Integers, Sequences, FiniteSets, TLC

(* ------------------------------ bounds --------------------------------- *)
\* number of time entries in the store of the approval workflow
MaxEntries == 2
\* number of update requests that may be in flight at once
MaxRequests == 2
\* length the owner's record list of the entry form may grow to
MaxRecords == 6
\* the current date of the entry form, as a day number
Today == 9

(* ------------------------- program constants --------------------------- *)
Pending == 0
Approved == 1
Rejected == 2
ApprovedNormalOnly == 3
Statuses == {Pending, Approved, Rejected, ApprovedNormalOnly}

\* parseInt(coordinatorId) of the one approver session; 0 stands for "no approver"
CoordinatorId == 1
NoApprover == 0

MinutesPerDay == 1440
WEEKLY_HOURS_LIMIT_DEFAULT == 44
UnitsPerMinute == 5
UnitsPerHundredth == 3

NoTime == << >>
\* settings === null (not loaded yet)
Null == [null |-> TRUE]
\* a settings key that is missing from the map (or holds the empty string)
Absent == [q |-> FALSE, t |-> NoTime]
Setting(time) == [q |-> FALSE, t |-> time]
Quoted(time) == [q |-> TRUE, t |-> time]
\* the settings map with every schedule key missing
EmptySettings ==
    [normal_hours_start |-> Absent, normal_hours_end |-> Absent,
     normal_hours_end_friday |-> Absent,
     saturday_hours_start |-> Absent, saturday_hours_end |-> Absent]
\* a report without fecha_trabajada
NoDate == -1
\* a limit message that states no number of hours still available
NoHeadroom == -1

(* ------------------------------ helpers -------------------------------- *)
Max(a, b) == IF a >= b THEN a ELSE b
Min(a, b) == IF a <= b THEN a ELSE b

\* Date.getDay() of a day number: 0 = Sunday ... 6 = Saturday (day 0 is a Monday)
getDay(d) == (d + 1) % 7

\* startOfWeek(date, {weekStartsOn: 1}): the Monday of the week of day d
startOfWeek(d) == d - (d % 7)
\* endOfWeek(date, {weekStartsOn: 1}): the Sunday of the week of day d
endOfWeek(d) == startOfWeek(d) + 6
isWithinInterval(d, s, e) == s <= d /\ d <= e

\* timeToMinutes: "" -> 0, "HH:MM" -> h * 60 + m
timeToMinutes(t) == IF t = NoTime THEN 0 ELSE t[1] * 60 + t[2]

\* parseFloat((minutes / 60).toFixed(2)) in HourUnits: 100 * m / 60 = 5m/3 is
\* never half way between two hundredths, so rounding to nearest is floor(5m/3 + 1/2)
toFixed2(m) == UnitsPerHundredth * ((10 * m + 3) \div 6)

\* settings.<key>?.replace(/"/g, '') || dflt : a value is the record
\* [q |-> stored with JSON quotes?, t |-> time]; stripping the quotes leaves the
\* time, and a missing or empty value falls back to the default
settingOr(v, dflt) == IF v.t = NoTime THEN dflt ELSE v.t
\* truthiness of settings.<key>, tested before the quotes are stripped: a
\* quoted empty string is a non-empty string
isSet(v) == v.q \/ v.t # NoTime

(* --------------------------- overtime split ---------------------------- *)
\* the record the split returns; the minute fields are the function's locals
\* (0 on the early return, which computes none)
Breakdown(nm, em, tm, n, e, t, c) ==
    [normalMinutes |-> nm, extraMinutes |-> em, totalMinutes |-> tm,
     normal |-> n, extra |-> e, total |-> t, computed |-> c]

\* the early return of both copies: { normal: horas, extra: 0, total: horas }
splitSkipped(report, settings) ==
    \/ report.hora_inicio = NoTime
    \/ report.hora_fin = NoTime
    \/ report.fecha_trabajada = NoDate
    \/ settings = Null

\* the overlap taken as a plain difference, without the test for an empty overlap
overlapUnclamped(startMin, endMin, limitStart, limitEnd) ==
    Min(endMin, limitEnd) - Max(startMin, limitStart)

overlapMinutes(startMin, endMin, limitStart, limitEnd) ==
    LET overlapStart == Max(startMin, limitStart)
        overlapEnd == Min(endMin, limitEnd)
    IN  IF overlapStart < overlapEnd THEN overlapEnd - overlapStart ELSE 0

\* the total taken as the plain difference, negative across midnight
totalMinutesNoWrap(startMin, endMin) == endMin - startMin

totalMinutesOf(startMin, endMin) ==
    IF endMin - startMin < 0 THEN endMin - startMin + MinutesPerDay ELSE endMin - startMin

\* PayrollReview.calculateHoursBreakdown (approval screen)
PayrollReview_calculateHoursBreakdown(report, settings) ==
    IF splitSkipped(report, settings)
    THEN Breakdown(0, 0, 0, report.horas, 0, report.horas, FALSE)
    ELSE
    LET startMin == timeToMinutes(report.hora_inicio)
        endMin == timeToMinutes(report.hora_fin)
        dayOfWeek == getDay(report.fecha_trabajada)
        normalStartStr == settingOr(settings.normal_hours_start, <<7, 30>>)
        normalEndStr ==
            IF dayOfWeek = 5 /\ isSet(settings.normal_hours_end_friday)
            THEN settings.normal_hours_end_friday.t
            ELSE settingOr(settings.normal_hours_end, <<17, 30>>)
        limitStart == timeToMinutes(normalStartStr)
        limitEnd == timeToMinutes(normalEndStr)
        normalMinutes == overlapMinutes(startMin, endMin, limitStart, limitEnd)
        totalMinutes == totalMinutesOf(startMin, endMin)
        extraMinutes == Max(0, totalMinutes - normalMinutes)
    IN  Breakdown(normalMinutes, extraMinutes, totalMinutes,
                  toFixed2(normalMinutes), toFixed2(extraMinutes), toFixed2(totalMinutes),
                  TRUE)

\* OvertimeReport.calculateHoursBreakdown (overtime report)
OvertimeReport_calculateHoursBreakdown(report, settings) ==
    IF splitSkipped(report, settings)
    THEN Breakdown(0, 0, 0, report.horas, 0, report.horas, FALSE)
    ELSE
    LET startMin == timeToMinutes(report.hora_inicio)
        endMin == timeToMinutes(report.hora_fin)
        totalMinutes == totalMinutesOf(startMin, endMin)
        dayOfWeek == getDay(report.fecha_trabajada)
        normalStartStr ==
            IF dayOfWeek = 6
            THEN settingOr(settings.saturday_hours_start, <<7, 30>>)
            ELSE settingOr(settings.normal_hours_start, <<7, 30>>)
        normalEndStr ==
            IF dayOfWeek = 5 /\ isSet(settings.normal_hours_end_friday)
            THEN settings.normal_hours_end_friday.t
            ELSE IF dayOfWeek = 6
                 THEN settingOr(settings.saturday_hours_end, <<12, 0>>)
                 ELSE settingOr(settings.normal_hours_end, <<17, 30>>)
        limitStart == timeToMinutes(normalStartStr)
        limitEnd == timeToMinutes(normalEndStr)
        normalMinutes == overlapMinutes(startMin, endMin, limitStart, limitEnd)
        extraMinutes == Max(0, totalMinutes - normalMinutes)
    IN  IF dayOfWeek = 0
        THEN Breakdown(0, totalMinutes, totalMinutes,
                       0, toFixed2(totalMinutes), toFixed2(totalMinutes), TRUE)
        ELSE Breakdown(normalMinutes, extraMinutes, totalMinutes,
                       toFixed2(normalMinutes), toFixed2(extraMinutes),
                       toFixed2(totalMinutes), TRUE)

\* calculateHoursBreakdown of the older overtime report (CalendarInstructions.tsx),
\* "duplicated from PayrollReview": no Sunday branch, no Saturday window
OlderReport_calculateHoursBreakdown(report, settings) ==
    IF splitSkipped(report, settings)
    THEN Breakdown(0, 0, 0, report.horas, 0, report.horas, FALSE)
    ELSE
    LET startMin == timeToMinutes(report.hora_inicio)
        endMin == timeToMinutes(report.hora_fin)
        dayOfWeek == getDay(report.fecha_trabajada)
        normalStartStr == settingOr(settings.normal_hours_start, <<7, 30>>)
        normalEndStr ==
            IF dayOfWeek = 5 /\ isSet(settings.normal_hours_end_friday)
            THEN settings.normal_hours_end_friday.t
            ELSE settingOr(settings.normal_hours_end, <<17, 30>>)
        limitStart == timeToMinutes(normalStartStr)
        limitEnd == timeToMinutes(normalEndStr)
        normalMinutes == overlapMinutes(startMin, endMin, limitStart, limitEnd)
        totalMinutes == totalMinutesOf(startMin, endMin)
        extraMinutes == Max(0, totalMinutes - normalMinutes)
    IN  Breakdown(normalMinutes, extraMinutes, totalMinutes,
                  toFixed2(normalMinutes), toFixed2(extraMinutes), toFixed2(totalMinutes),
                  TRUE)

(* ------------------------------- state --------------------------------- *)
(* The store is the remote collaborator behind reportesAPI; the approver   *)
(* session is PayrollReview, the owner session is OperativeDashboard with  *)
(* HoursHistoryByDate and the entry form CalendarHoursEntry.  An update    *)
(* request is sent, processed by the store (applied, or failed and         *)
(* dropped) and its response delivered to the handler that awaits it;      *)
(* several may be in flight.                                               *)
VARIABLES
    store,          \* id -> the stored report
    reports,        \* PayrollReview: the approver's fetched list, id -> report
    settings,       \* PayrollReview: settings state (Null until fetched)
    loading,        \* PayrollReview: loading
    error,          \* PayrollReview: error # null
    processingId,   \* PayrollReview: processingId (0 = null)
    bulkProcessing, \* PayrollReview: bulkProcessing
    requests,       \* update requests of the approver session in flight
    fetching,       \* handlers awaiting fetchReports: [single, bulk, plain]
    bulkSettled,    \* ids of the batch whose update Promise.all has seen fulfilled
    hoursRecords,   \* OperativeDashboard: the owner's local list
    editingRecord,  \* OperativeDashboard: id of editingRecord (0 = null)
    formKind,       \* which CalendarHoursEntry is mounted: "hours" or "range"
    actor,          \* the dashboard the form is mounted in: "operative" or "coordinator"
    formSettings,   \* CalendarHoursEntry: the settings prop (Null = not loaded)
    selectedDate,   \* CalendarHoursEntry: selectedDate (NoDate = null)
    dialogOpen,     \* CalendarHoursEntry: dialogOpen
    outcome,        \* what the step just taken did, if it was a submission
    areaForm,       \* CalendarHoursEntry: selectedCliente, areaCliente, dynamicAreas
    splitInput,     \* the report and settings map handed to the overtime split
    reviewBreakdown,\* what PayrollReview's copy of the split returned
    reportBreakdown,\* what OvertimeReport's copy of the split returned
    olderBreakdown, \* what the older overtime report's copy of the split returned
    totalsInput,    \* the fetched reports, settings map and date range of the summaries
    totals          \* the summaries computed from them, each Null until computed

wfVars == <<store, reports, settings, loading, error, processingId, bulkProcessing,
            requests, fetching, bulkSettled>>
ownerVars == <<hoursRecords, editingRecord>>
formVars == <<formKind, actor, formSettings, selectedDate, dialogOpen, outcome, areaForm>>
splitVars == <<splitInput, reviewBreakdown, reportBreakdown, olderBreakdown>>
totalsVars == <<totalsInput, totals>>
vars == <<wfVars, ownerVars, formVars, splitVars, totalsVars>>

\* no submission was just made
NoOutcome == [accepted |-> FALSE, reason |-> "none", form |-> Null]
\* the dialog's selects as useState leaves them: no client, no area, no
\* areas loaded
NoAreaForm == [selectedCliente |-> "", areaCliente |-> "", dynamicAreas |-> {}]

\* the parts of the state a specification does not exercise
WorkflowIdle ==
    /\ store = << >>
    /\ reports = << >>
    /\ settings = Null
    /\ loading = FALSE
    /\ error = FALSE
    /\ processingId = 0
    /\ bulkProcessing = FALSE
    /\ requests = {}
    /\ fetching = [single |-> 0, bulk |-> FALSE, plain |-> 0]
    /\ bulkSettled = {}
FormIdle ==
    /\ formKind = "none"
    /\ actor = "none"
    /\ formSettings = Null
    /\ selectedDate = NoDate
    /\ dialogOpen = FALSE
    /\ outcome = NoOutcome
    /\ areaForm = NoAreaForm
SplitIdle ==
    /\ splitInput = Null
    /\ reviewBreakdown = Null
    /\ reportBreakdown = Null
    /\ olderBreakdown = Null
\* no summary has been asked for
NoTotals == [weekly |-> Null, summary |-> Null, monthly |-> Null, payable |-> Null,
             own |-> Null]
\* a summary once computed
Computed(x) == [null |-> FALSE, value |-> x]
TotalsIdle ==
    /\ totalsInput = Null
    /\ totals = NoTotals

(* ------------------------- approval workflow --------------------------- *)
Ids == 1 .. MaxEntries

\* the work date of entry e: entry 1 on a Monday, entry 2 on the Tuesday of
\* the same week, entry 3 on that Monday again, later entries in later weeks
FechaOf(e) == IF e = 1 THEN 0 ELSE IF e = 2 THEN 1 ELSE IF e = 3 THEN 0 ELSE 7 * (e - 3)
Dates == {FechaOf(e) : e \in Ids}

Range(ini, fin) == [hora_inicio |-> ini, hora_fin |-> fin]
Legacy == Range(NoTime, NoTime)
\* what entry e was recorded with: entry 1 has overtime on both sides of the
\* default window, entry 2 has none, entry 3 is a legacy entry without times,
\* and so on in turn
RangeOf(e) ==
    IF e % 3 = 1 THEN Range(<<7, 0>>, <<18, 0>>)
    ELSE IF e % 3 = 2 THEN Range(<<8, 0>>, <<12, 0>>) ELSE Legacy

\* n hours in HourUnits
Hours(n) == n * 60 * UnitsPerMinute
LegacyHoras == Hours(8)

\* horasCalculadas = (finMinutos - inicioMinutos) / 60, in HourUnits
horasCalculadas(ini, fin) == (timeToMinutes(fin) - timeToMinutes(ini)) * UnitsPerMinute

Report(e, r, st, por) ==
    [id |-> e, fecha_trabajada |-> FechaOf(e),
     hora_inicio |-> r.hora_inicio, hora_fin |-> r.hora_fin,
     horas |-> IF r = Legacy THEN LegacyHoras
               ELSE horasCalculadas(r.hora_inicio, r.hora_fin),
     aprobado |-> st, aprobadopor |-> por]

\* the fields of a fetched report the approval screen reads
Listed(rep) ==
    [id |-> rep.id, fecha_trabajada |-> rep.fecha_trabajada,
     hora_inicio |-> rep.hora_inicio, hora_fin |-> rep.hora_fin,
     horas |-> rep.horas, aprobado |-> rep.aprobado]

\* HoursRecord of the owner's list (mappedRecords of loadData)
HoursRecord(rep) ==
    [id |-> rep.id, horas |-> rep.horas, fecha |-> rep.fecha_trabajada,
     aprobado |-> rep.aprobado]

Request(e, st, h) == [id |-> e, aprobado |-> st, handler |-> h]

\* the settings maps the approver session may have fetched
WorkflowSettings == {Null, EmptySettings}

Init ==
    /\ store = [e \in Ids |-> Report(e, RangeOf(e), Pending, NoApprover)]
    /\ reports = [e \in Ids |-> Listed(store[e])]
    /\ settings \in WorkflowSettings
    /\ loading = FALSE
    /\ error = FALSE
    /\ processingId = 0
    /\ bulkProcessing = FALSE
    /\ requests = {}
    /\ fetching = [single |-> 0, bulk |-> FALSE, plain |-> 0]
    /\ bulkSettled = {}
    /\ hoursRecords = [e \in Ids |-> HoursRecord(store[e])]
    /\ editingRecord = 0
    /\ FormIdle
    /\ SplitIdle
    /\ TotalsIdle

\* what the approver's actions leave alone
notApprover == <<ownerVars, formVars, splitVars, totalsVars>>
\* what the owner's actions of the workflow leave alone
notOwner == <<reports, settings, loading, error, processingId, bulkProcessing,
              requests, fetching, bulkSettled, formVars, splitVars, totalsVars>>
\* the approver screen renders its buttons only when neither the spinner nor
\* the error alert replaces the view
Clickable == ~loading /\ ~error

\* r.aprobado !== 1 && r.aprobado !== 2 : what the bulk handlers call pending
bulkPending(r) == r.aprobado # Approved /\ r.aprobado # Rejected

\* the last branch of the status chain of the reports view: not 1, not 2, not 3
showsButtons(r) ==
    r.aprobado # Approved /\ r.aprobado # Rejected /\ r.aprobado # ApprovedNormalOnly

\* hasExtras = breakdown.extra > 0
hasExtras(r) == PayrollReview_calculateHoursBreakdown(r, settings).extra > 0

getReportsForDate(date) == {e \in Ids : reports[e].fecha_trabajada = date}

getPendingCountForDate(date) ==
    Cardinality({e \in getReportsForDate(date) : bulkPending(reports[e])})

\* week.pending of weeklyTotals for the week starting at weekStart: the hours
\* of the reports that are neither 1, 2 nor 3
RECURSIVE SumHoras(_, _)
SumHoras(S, f) ==
    IF S = {} THEN 0
    ELSE LET e == CHOOSE x \in S : TRUE IN f[e].horas + SumHoras(S \ {e}, f)
weekPending(weekStart) ==
    SumHoras({e \in Ids : /\ startOfWeek(reports[e].fecha_trabajada) = weekStart
                          /\ showsButtons(reports[e])}, reports)

\* fetchReports, up to its await: setLoading(true); setError(null)
fetchReportsStart(kind) ==
    /\ loading' = TRUE
    /\ error' = FALSE
    /\ fetching' = IF kind = "bulk" THEN [fetching EXCEPT !.bulk = TRUE]
                   ELSE IF kind = "single"
                        THEN [fetching EXCEPT !.single = @ + 1]
                        ELSE [fetching EXCEPT !.plain = @ + 1]

\* the three buttons of a report in the reports view: Aprobar Todo (1),
\* Aprobar Sin Extras (3), Rechazar Todo (2); up to the await of the update
singleButtonShown(e, st) ==
    /\ showsButtons(reports[e])
    /\ st = ApprovedNormalOnly => hasExtras(reports[e])
    /\ processingId # e

ClickSingle(e, st) ==
    /\ Clickable
    /\ singleButtonShown(e, st)
    /\ Request(e, st, "single") \notin requests
    /\ Cardinality(requests) + fetching.single < MaxRequests
    /\ processingId' = e
    /\ requests' = requests \cup {Request(e, st, "single")}
    /\ UNCHANGED <<store, reports, settings, loading, error, bulkProcessing, fetching>>
    /\ UNCHANGED bulkSettled
    /\ UNCHANGED notApprover

\* the reports the day handler updates
pendingReports(date) == {e \in getReportsForDate(date) : bulkPending(reports[e])}

\* handleBulkApproval(date, newStatus), up to the await of Promise.all
handleBulkApproval(date, newStatus) ==
    /\ Clickable
    /\ getPendingCountForDate(date) > 0
    /\ ~bulkProcessing
    /\ pendingReports(date) # {}
    /\ Cardinality(requests) + Cardinality(pendingReports(date)) <= MaxRequests
    /\ bulkProcessing' = TRUE
    /\ requests' = requests \cup {Request(e, newStatus, "bulk") : e \in pendingReports(date)}
    /\ UNCHANGED <<store, reports, settings, loading, error, processingId, fetching>>
    /\ bulkSettled' = {}
    /\ UNCHANGED notApprover

\* the reports the week handler updates
pendingReportsInWeek(weekStart, weekEnd) ==
    {e \in Ids : /\ reports[e].fecha_trabajada # NoDate
                 /\ ~(reports[e].aprobado = Approved \/ reports[e].aprobado = Rejected)
                 /\ isWithinInterval(reports[e].fecha_trabajada, weekStart, weekEnd)}

\* handleBulkWeekApproval(weekStart, weekEnd, newStatus), up to the await
handleBulkWeekApproval(weekStart, newStatus) ==
    LET weekEnd == endOfWeek(weekStart)
        batch == pendingReportsInWeek(weekStart, weekEnd)
    IN  /\ Clickable
        /\ weekPending(weekStart) > 0
        /\ ~bulkProcessing
        /\ batch # {}
        /\ Cardinality(requests) + Cardinality(batch) <= MaxRequests
        /\ bulkProcessing' = TRUE
        /\ requests' = requests \cup {Request(e, newStatus, "bulk") : e \in batch}
        /\ UNCHANGED <<store, reports, settings, loading, error, processingId, fetching>>
        /\ bulkSettled' = {}
        /\ UNCHANGED notApprover

\* reportesAPI.update(id, {aprobado, aprobadopor}) at the store: the partial
\* update is applied to the stored report
StoreApply(q) ==
    [store EXCEPT ![q.id] = [@ EXCEPT !.aprobado = q.aprobado,
                                       !.aprobadopor = CoordinatorId]]

\* the single-entry handler, from the store's answer on: the update is
\* applied and the handler goes on to fetchReports
SingleResolved(q) ==
    /\ q \in requests
    /\ q.handler = "single"
    /\ store' = StoreApply(q)
    /\ requests' = requests \ {q}
    /\ fetchReportsStart("single")
    /\ UNCHANGED <<reports, settings, processingId, bulkProcessing>>
    /\ UNCHANGED bulkSettled
    /\ UNCHANGED notApprover

\* the single-entry handler when the update fails: catch, then finally
SingleRejected(q) ==
    /\ q \in requests
    /\ q.handler = "single"
    /\ requests' = requests \ {q}
    /\ processingId' = 0
    /\ UNCHANGED <<store, reports, settings, loading, error, bulkProcessing, fetching>>
    /\ UNCHANGED bulkSettled
    /\ UNCHANGED notApprover

\* Promise.all of a bulk handler: one more update applied and fulfilled; when
\* it was the last one the handler goes on to fetchReports
BulkResolved(q) ==
    /\ q \in requests
    /\ q.handler = "bulk"
    /\ store' = StoreApply(q)
    /\ requests' = requests \ {q}
    /\ IF \E o \in requests \ {q} : o.handler = "bulk"
       THEN UNCHANGED <<loading, error, fetching>>
       ELSE fetchReportsStart("bulk")
    /\ UNCHANGED <<reports, settings, processingId, bulkProcessing>>
    /\ bulkSettled' = IF \E o \in requests \ {q} : o.handler = "bulk"
                      THEN bulkSettled \cup {q.id} ELSE {}
    /\ UNCHANGED notApprover

\* Promise.all rejects at the first failed update: catch, then finally; the
\* other updates of the batch stay in flight with nobody awaiting them
BulkRejected(q) ==
    /\ q \in requests
    /\ q.handler = "bulk"
    /\ requests' = {[o EXCEPT !.handler = "orphan"] :
                        o \in {x \in requests \ {q} : x.handler = "bulk"}}
                   \cup {o \in requests : o.handler # "bulk"}
    /\ bulkProcessing' = FALSE
    /\ UNCHANGED <<store, reports, settings, loading, error, processingId, fetching>>
    /\ bulkSettled' = {}
    /\ UNCHANGED notApprover

\* an update of a rejected batch reaches the store: applied, or failed
OrphanApplied(q) ==
    /\ q \in requests
    /\ q.handler = "orphan"
    /\ store' = StoreApply(q)
    /\ requests' = requests \ {q}
    /\ UNCHANGED <<reports, settings, loading, error, processingId, bulkProcessing,
                   fetching>>
    /\ UNCHANGED bulkSettled
    /\ UNCHANGED notApprover

OrphanFailed(q) ==
    /\ q \in requests
    /\ q.handler = "orphan"
    /\ requests' = requests \ {q}
    /\ UNCHANGED <<store, reports, settings, loading, error, processingId,
                   bulkProcessing, fetching>>
    /\ UNCHANGED bulkSettled
    /\ UNCHANGED notApprover

fetchKinds == {"single", "bulk", "plain"}
awaited(kind) ==
    IF kind = "bulk" THEN fetching.bulk
    ELSE IF kind = "single" THEN fetching.single > 0 ELSE fetching.plain > 0
fetchSettled(kind) ==
    IF kind = "bulk" THEN [fetching EXCEPT !.bulk = FALSE]
    ELSE IF kind = "single" THEN [fetching EXCEPT !.single = @ - 1]
         ELSE [fetching EXCEPT !.plain = @ - 1]
\* the finally block of the handler that awaited fetchReports
handlerFinally(kind) ==
    /\ processingId' = IF kind = "single" THEN 0 ELSE processingId
    /\ bulkProcessing' = IF kind = "bulk" THEN FALSE ELSE bulkProcessing

\* fetchReports after its await: setReports(data); finally setLoading(false)
fetchReportsDone(kind) ==
    /\ awaited(kind)
    /\ reports' = [e \in Ids |-> Listed(store[e])]
    /\ loading' = FALSE
    /\ fetching' = fetchSettled(kind)
    /\ handlerFinally(kind)
    /\ UNCHANGED <<store, settings, error, requests>>
    /\ UNCHANGED bulkSettled
    /\ UNCHANGED notApprover

\* fetchReports after its await: catch setError(...); finally setLoading(false)
fetchReportsFailed(kind) ==
    /\ awaited(kind)
    /\ error' = TRUE
    /\ loading' = FALSE
    /\ fetching' = fetchSettled(kind)
    /\ handlerFinally(kind)
    /\ UNCHANGED <<store, reports, settings, requests>>
    /\ UNCHANGED bulkSettled
    /\ UNCHANGED notApprover

\* the refresh button of the calendar view: onClick={fetchReports}
RefreshClick ==
    /\ Clickable
    /\ fetching.plain = 0
    /\ fetchReportsStart("plain")
    /\ UNCHANGED <<store, reports, settings, processingId, bulkProcessing, requests>>
    /\ UNCHANGED bulkSettled
    /\ UNCHANGED notApprover

(* ------------------------------ the owner ------------------------------ *)
\* loadData on mount of OperativeDashboard: the owner's list is the store's
loadData ==
    /\ hoursRecords' = [e \in Ids |-> HoursRecord(store[e])]
    /\ editingRecord' = 0
    /\ UNCHANGED store
    /\ UNCHANGED notOwner

\* the edit button of HoursHistoryByDate: record.aprobado === 2 && onEdit
editButtonShown(record) == record.aprobado = Rejected

handleEditReport(e) ==
    /\ editButtonShown(hoursRecords[e])
    /\ editingRecord = 0
    /\ editingRecord' = e
    /\ UNCHANGED <<store, hoursRecords>>
    /\ UNCHANGED notOwner

handleCancelEdit ==
    /\ editingRecord # 0
    /\ editingRecord' = 0
    /\ UNCHANGED <<store, hoursRecords>>
    /\ UNCHANGED notOwner

\* handleSaveHours, update branch, with the store's side of reportesAPI.update:
\* the stored report gets the hours and times sent and aprobado 0 (aprobadopor
\* is not part of the update), the local record the hours and aprobado 0
handleSaveHoursUpdate(r) ==
    /\ editingRecord # 0
    /\ store' = [store EXCEPT ![editingRecord] =
                    [@ EXCEPT !.horas = IF r = Legacy THEN LegacyHoras
                                        ELSE horasCalculadas(r.hora_inicio, r.hora_fin),
                              !.hora_inicio = r.hora_inicio,
                              !.hora_fin = r.hora_fin,
                              !.aprobado = Pending]]
    /\ hoursRecords' = [hoursRecords EXCEPT ![editingRecord] =
                           [@ EXCEPT !.horas = store'[editingRecord].horas,
                                     !.aprobado = Pending]]
    /\ editingRecord' = 0
    /\ UNCHANGED notOwner

ApproverStep ==
    \/ \E e \in Ids, st \in {Approved, Rejected, ApprovedNormalOnly} : ClickSingle(e, st)
    \/ \E d \in Dates, st \in {Approved, Rejected} : handleBulkApproval(d, st)
    \/ \E d \in Dates, st \in {Approved, Rejected} :
           handleBulkWeekApproval(startOfWeek(d), st)
    \/ \E q \in requests : SingleResolved(q)
    \/ \E q \in requests : SingleRejected(q)
    \/ \E q \in requests : BulkResolved(q)
    \/ \E q \in requests : BulkRejected(q)
    \/ \E k \in fetchKinds : fetchReportsDone(k)
    \/ \E k \in fetchKinds : fetchReportsFailed(k)
    \/ RefreshClick

StoreStep ==
    \/ \E q \in requests : OrphanApplied(q)
    \/ \E q \in requests : OrphanFailed(q)

\* the owner resubmits a rejected entry with the range it was recorded with
OwnerStep ==
    \/ loadData
    \/ \E e \in Ids : handleEditReport(e)
    \/ handleCancelEdit
    \/ \E r \in {RangeOf(editingRecord)} : handleSaveHoursUpdate(r)

Next == ApproverStep \/ StoreStep \/ OwnerStep

Spec == Init /\ [][Next]_vars

(* ---------------------- the older approval screen ---------------------- *)
(* PayrollReview.tsx: the entries of a day, each with the buttons Aprobar   *)
(* and Rechazar; handleUpdateStatus awaits the update and then patches the  *)
(* list it was created with.  No bulk handlers, no settings.                *)

\* the update request of handleUpdateStatus; seen is the reports list of the
\* render the handler was created in
StatusRequest(e, st) == [id |-> e, aprobado |-> st, handler |-> "status", seen |-> reports]

\* reportesAPI.update(id, { aprobado: newStatus }) at the store
StoreApplyStatus(q) == [store EXCEPT ![q.id] = [@ EXCEPT !.aprobado = q.aprobado]]

\* the buttons of a report: rendered when aprobado is neither 1 nor 2,
\* disabled while processingId is the report's id
statusButtonEnabled(e) == bulkPending(reports[e]) /\ processingId # e

\* handleUpdateStatus(id, newStatus), up to the await of the update
handleUpdateStatus(e, newStatus) ==
    /\ Clickable
    /\ statusButtonEnabled(e)
    /\ Cardinality(requests) < MaxRequests
    /\ StatusRequest(e, newStatus) \notin requests
    /\ processingId' = e
    /\ requests' = requests \cup {StatusRequest(e, newStatus)}
    /\ UNCHANGED <<store, reports, settings, loading, error, bulkProcessing, fetching,
                   bulkSettled>>
    /\ UNCHANGED notApprover

\* handleUpdateStatus after the await: setReports(reports.map(...)) over the
\* list of its own render, then finally setProcessingId(null)
UpdateStatusResolved(q) ==
    /\ q \in requests
    /\ store' = StoreApplyStatus(q)
    /\ reports' = [q.seen EXCEPT ![q.id] = [@ EXCEPT !.aprobado = q.aprobado]]
    /\ processingId' = 0
    /\ requests' = requests \ {q}
    /\ UNCHANGED <<settings, loading, error, bulkProcessing, fetching, bulkSettled>>
    /\ UNCHANGED notApprover

\* handleUpdateStatus when the update fails: catch, then finally
UpdateStatusRejected(q) ==
    /\ q \in requests
    /\ processingId' = 0
    /\ requests' = requests \ {q}
    /\ UNCHANGED <<store, reports, settings, loading, error, bulkProcessing, fetching,
                   bulkSettled>>
    /\ UNCHANGED notApprover

InitOlderReview ==
    /\ store = [e \in Ids |-> Report(e, RangeOf(e), Pending, NoApprover)]
    /\ reports = [e \in Ids |-> Listed(store[e])]
    /\ settings = Null
    /\ loading = FALSE
    /\ error = FALSE
    /\ processingId = 0
    /\ bulkProcessing = FALSE
    /\ requests = {}
    /\ fetching = [single |-> 0, bulk |-> FALSE, plain |-> 0]
    /\ bulkSettled = {}
    /\ hoursRecords = [e \in Ids |-> HoursRecord(store[e])]
    /\ editingRecord = 0
    /\ FormIdle
    /\ SplitIdle
    /\ TotalsIdle

NextOlderReview ==
    \/ \E e \in Ids, st \in {Approved, Rejected} : handleUpdateStatus(e, st)
    \/ \E q \in requests : UpdateStatusResolved(q)
    \/ \E q \in requests : UpdateStatusRejected(q)
    \/ OwnerStep

SpecOlderReview == InitOlderReview /\ [][NextOlderReview]_vars

(* ------------------- properties of the approval workflow --------------- *)
\* C1: an entry's status in the store changes only along Pending -> Approved,
\* Pending -> Rejected, Pending -> ApprovedNormalOnly, or back to Pending (the
\* owner's edit); no step changes the status of an entry that is Approved,
\* Rejected or ApprovedNormalOnly into another of these.
C1_StatusEdges ==
    [][\A e \in Ids :
          store'[e].aprobado # store[e].aprobado
              => \/ store[e].aprobado = Pending
                 \/ store'[e].aprobado = Pending]_vars

\* the entries the approver's list shows as Pending on day d / in the week of d
PendingOnDay(d) ==
    {e \in Ids : reports[e].aprobado = Pending /\ reports[e].fecha_trabajada = d}
PendingInWeek(d) ==
    {e \in Ids : /\ reports[e].aprobado = Pending
                 /\ isWithinInterval(reports[e].fecha_trabajada,
                                     startOfWeek(d), endOfWeek(d))}

\* C2: a bulk approve or reject of a day (of a week) sends the transition to
\* exactly the entries the list shows as Pending on that day (in that week):
\* the updates a bulk step puts in flight are one update per such entry.
C2_BulkBatch ==
    [][LET sent == requests' \ requests
       IN  (sent # {} /\ \A q \in sent : q.handler = "bulk")
               => \E st \in {Approved, Rejected}, d \in Dates :
                      \/ sent = {Request(e, st, "bulk") : e \in PendingOnDay(d)}
                      \/ sent = {Request(e, st, "bulk") : e \in PendingInWeek(d)}]_vars

\* C3: an entry becomes ApprovedNormalOnly only from Pending and only when the
\* approval screen's split of it reports overtime > 0.
C3_NormalOnlyEdge ==
    [][\A e \in Ids :
          (store'[e].aprobado = ApprovedNormalOnly
               /\ store[e].aprobado # ApprovedNormalOnly)
              => /\ store[e].aprobado = Pending
                 /\ PayrollReview_calculateHoursBreakdown(store[e], settings).extra > 0]_vars

\* a bulk handler ends in its catch: Promise.all rejected, no refetch follows
BulkFailedStep == bulkProcessing /\ ~bulkProcessing' /\ ~fetching.bulk

\* C15: when the update of an entry of a bulk approval fails, nothing already
\* applied is rolled back and the other updates of the batch stay under way,
\* and what the operation leaves on the screen tells the entries that succeeded
\* from those that failed: the list shows the new status of every entry of the
\* batch whose update had succeeded.
C15_BulkPartialFailure ==
    [][BulkFailedStep
          => /\ store' = store
             /\ \E q \in requests :
                    /\ q.handler = "bulk"
                    /\ \A o \in requests \ {q} :
                           o.handler = "bulk"
                               => [o EXCEPT !.handler = "orphan"] \in requests'
             /\ \A e \in bulkSettled : reports'[e].aprobado = store'[e].aprobado]_vars

\* the owner's save of an edit: handleSaveHours in its update branch
OwnerEditStep == editingRecord # 0 /\ editingRecord' = 0 /\ store' # store

\* C16: the owner's list offers the edit of an entry exactly when the entry is
\* Pending or Rejected, an edit is saved only for an entry that is Pending or
\* Rejected in the store, and a saved edit leaves the entry Pending in the
\* store and in the owner's list.
C16_OwnerEdit ==
    [][/\ \A e \in Ids :
              editButtonShown(hoursRecords[e])
                  <=> hoursRecords[e].aprobado \in {Pending, Rejected}
       /\ OwnerEditStep
              => /\ store[editingRecord].aprobado \in {Pending, Rejected}
                 /\ store'[editingRecord].aprobado = Pending
                 /\ hoursRecords'[editingRecord].aprobado = Pending]_vars

\* C23: a step that takes an entry of the store out of Pending leaves the
\* coordinator's id as its approver together with the new status; a step
\* that leaves an entry Pending (the owner's edit) does not touch its
\* approver.
C23_ApproverRecorded ==
    [][\A e \in Ids :
          /\ (store[e].aprobado = Pending /\ store'[e].aprobado # Pending)
                => store'[e].aprobadopor = CoordinatorId
          /\ store'[e].aprobado = Pending
                => store'[e].aprobadopor = store[e].aprobadopor]_vars

\* C27: no two update requests for the same entry are in flight together,
\* whether issued by the entry's own buttons or by a bulk operation covering
\* the entry.
C27_OneRequestPerEntry ==
    \A q1 \in requests : \A q2 \in requests : q1.id = q2.id => q1 = q2

\* no approval operation is under way and the list is on the screen
ApproverAtRest ==
    /\ requests = {}
    /\ fetching = [single |-> 0, bulk |-> FALSE, plain |-> 0]
    /\ processingId = 0
    /\ ~bulkProcessing
    /\ ~loading
    /\ ~error

\* C28: once every approval operation has finished, the approver's list
\* shows for each entry the status the store holds for it: an entry the
\* store has taken out of Pending is not shown as Pending, nor with another
\* status than the stored one.
C28_ListMatchesStore ==
    ApproverAtRest
        => \A e \in Ids :
               store[e].aprobado # Pending => reports[e].aprobado = store[e].aprobado

(* --------------------- the overtime split on its own ------------------- *)
\* the times of day an interval may start or end at
SplitTimes ==
    {NoTime, <<7, 0>>, <<7, 30>>, <<8, 0>>, <<12, 0>>, <<14, 0>>,
     <<17, 10>>, <<17, 50>>, <<18, 0>>, <<23, 0>>}
\* a Monday to a Sunday, and no fecha_trabajada
SplitDates == (0 .. 6) \cup {NoDate}
\* the settings maps: not loaded, or any choice of the schedule keys, a value
\* being stored plain or in JSON quotes
SplitSettings ==
    {Null} \cup
    [normal_hours_start : {Absent, Setting(<<8, 0>>)},
     normal_hours_end : {Absent, Quoted(<<17, 0>>)},
     normal_hours_end_friday : {Absent, Quoted(<<16, 30>>)},
     saturday_hours_start : {Absent},
     saturday_hours_end : {Absent, Setting(<<13, 0>>)}]

\* the report of an interval: horas is what the entry form computed for it, or
\* the hours typed in when the entry has no usable range
SplitReport(ini, fin, fecha) ==
    [hora_inicio |-> ini, hora_fin |-> fin, fecha_trabajada |-> fecha,
     horas |-> IF ini # NoTime /\ fin # NoTime /\ horasCalculadas(ini, fin) > 0
               THEN horasCalculadas(ini, fin) ELSE LegacyHoras]

InitSplit ==
    /\ \E ini \in SplitTimes, fin \in SplitTimes, fecha \in SplitDates,
          s \in SplitSettings :
           splitInput = [report |-> SplitReport(ini, fin, fecha), settings |-> s]
    /\ reviewBreakdown = Null
    /\ reportBreakdown = Null
    /\ olderBreakdown = Null
    /\ WorkflowIdle
    /\ hoursRecords = << >>
    /\ editingRecord = 0
    /\ FormIdle
    /\ TotalsIdle

\* the approval screen renders the report: breakdown = calculateHoursBreakdown(report)
RenderPayrollReview ==
    /\ reviewBreakdown = Null
    /\ reviewBreakdown' =
           PayrollReview_calculateHoursBreakdown(splitInput.report, splitInput.settings)
    /\ UNCHANGED <<splitInput, reportBreakdown, olderBreakdown, wfVars, ownerVars, formVars,
                   totalsVars>>

\* the overtime report adds the report to its summary
RenderOvertimeReport ==
    /\ reportBreakdown = Null
    /\ reportBreakdown' =
           OvertimeReport_calculateHoursBreakdown(splitInput.report, splitInput.settings)
    /\ UNCHANGED <<splitInput, reviewBreakdown, olderBreakdown, wfVars, ownerVars, formVars,
                   totalsVars>>

\* the older overtime report adds the report to its summary
RenderOlderReport ==
    /\ olderBreakdown = Null
    /\ olderBreakdown' =
           OlderReport_calculateHoursBreakdown(splitInput.report, splitInput.settings)
    /\ UNCHANGED <<splitInput, reviewBreakdown, reportBreakdown, wfVars, ownerVars, formVars,
                   totalsVars>>

NextSplit == RenderPayrollReview \/ RenderOvertimeReport \/ RenderOlderReport

SpecSplit == InitSplit /\ [][NextSplit]_vars

(* ----------------------- properties of the split ----------------------- *)
\* the breakdowns computed so far
Breakdowns == {reviewBreakdown, reportBreakdown} \ {Null}
Abs(x) == IF x < 0 THEN -x ELSE x

\* C8: at both call sites the split has normalMinutes + extraMinutes =
\* totalMinutes with both parts >= 0; the hours returned, each rounded to two
\* decimals, are >= 0 and add up to the total within one hundredth of an hour,
\* and exactly when the split is skipped.
C8_SplitPartition ==
    \A b \in Breakdowns :
        /\ b.normalMinutes + b.extraMinutes = b.totalMinutes
        /\ b.normalMinutes >= 0
        /\ b.extraMinutes >= 0
        /\ b.normal >= 0
        /\ b.extra >= 0
        /\ Abs(b.normal + b.extra - b.total) <= UnitsPerHundredth
        /\ ~b.computed => b.normal + b.extra = b.total

\* both call sites have split an interval into a normal and an overtime part
C8_Witness ==
    /\ reviewBreakdown # Null
    /\ reportBreakdown # Null
    /\ \A b \in Breakdowns : b.computed /\ b.normalMinutes > 0 /\ b.extraMinutes > 0

SplitOnSunday ==
    /\ splitInput.report.fecha_trabajada # NoDate
    /\ getDay(splitInput.report.fecha_trabajada) = 0

\* C9: on a Sunday the split yields normal = 0 and overtime = total, whatever
\* the schedule settings are, at both call sites.
C9_SundayAllOvertime ==
    \A b \in Breakdowns :
        (b.computed /\ SplitOnSunday)
            => /\ b.normalMinutes = 0 /\ b.extraMinutes = b.totalMinutes
               /\ b.normal = 0 /\ b.extra = b.total

\* the normal window of a day of the week under a settings map: Monday to
\* Thursday the normal start and end, Friday the normal start and the Friday
\* end, Saturday the Saturday start and end; a key that is not set falls back
\* to 07:30, 17:30, or 12:00 for the Saturday end
winStart(dayOfWeek, s) ==
    timeToMinutes(IF dayOfWeek = 6 THEN settingOr(s.saturday_hours_start, <<7, 30>>)
                  ELSE settingOr(s.normal_hours_start, <<7, 30>>))
winEnd(dayOfWeek, s) ==
    timeToMinutes(IF dayOfWeek = 5 THEN s.normal_hours_end_friday.t
                  ELSE IF dayOfWeek = 6 THEN settingOr(s.saturday_hours_end, <<12, 0>>)
                  ELSE settingOr(s.normal_hours_end, <<17, 30>>))

\* C10: on every day but Sunday, normal = max(0, min(end, winEnd) -
\* max(start, winStart)) for the window of that day of the week, at both call
\* sites (a Friday is looked at when its Friday end is set).
C10_WindowOverlap ==
    \A b \in Breakdowns :
        LET r == splitInput.report
            s == splitInput.settings
            dayOfWeek == getDay(r.fecha_trabajada)
        IN  (/\ b.computed
             /\ dayOfWeek # 0
             /\ dayOfWeek = 5 => isSet(s.normal_hours_end_friday))
                => b.normalMinutes =
                       Max(0, Min(timeToMinutes(r.hora_fin), winEnd(dayOfWeek, s))
                              - Max(timeToMinutes(r.hora_inicio), winStart(dayOfWeek, s)))

\* what a call site shows of a breakdown: normal, overtime and total hours
Shown(b) == <<b.normal, b.extra, b.total>>

\* C11: the approval screen, the overtime report and the older overtime report
\* compute the same (normal, overtime, total) for the same entry and settings
\* map, on every day of the week.
C11_SplitAgrees ==
    \A a \in {reviewBreakdown, reportBreakdown, olderBreakdown} \ {Null} :
        \A b \in {reviewBreakdown, reportBreakdown, olderBreakdown} \ {Null} :
            Shown(a) = Shown(b)

\* the settings map a missing configuration stands for: no map is the map
\* with no key
SettingsOrEmpty(s) == IF s = Null THEN EmptySettings ELSE s
\* the normal window with the fixed defaults in place of missing keys:
\* weekday 07:30-17:30, Friday end 16:30, Saturday 07:30-12:00
defaultedStart(dayOfWeek, s) ==
    timeToMinutes(IF dayOfWeek = 6 THEN settingOr(s.saturday_hours_start, <<7, 30>>)
                  ELSE settingOr(s.normal_hours_start, <<7, 30>>))
defaultedEnd(dayOfWeek, s) ==
    timeToMinutes(IF dayOfWeek = 5 THEN settingOr(s.normal_hours_end_friday, <<16, 30>>)
                  ELSE IF dayOfWeek = 6 THEN settingOr(s.saturday_hours_end, <<12, 0>>)
                  ELSE settingOr(s.normal_hours_end, <<17, 30>>))

\* C22: when a schedule key or the whole settings map is missing, the split
\* of an entry with a range and a date is still computed, with the window of
\* its day taken from the fixed defaults (weekday 07:30-17:30, Friday
\* 07:30-16:30, Saturday 07:30-12:00, Sunday none), at both call sites.
C22_DefaultWindows ==
    \A b \in Breakdowns :
        LET r == splitInput.report
            s == SettingsOrEmpty(splitInput.settings)
            dayOfWeek == getDay(r.fecha_trabajada)
        IN  (r.hora_inicio # NoTime /\ r.hora_fin # NoTime /\ r.fecha_trabajada # NoDate)
                => /\ b.computed
                   /\ b.normalMinutes =
                        IF dayOfWeek = 0 THEN 0
                        ELSE Max(0, Min(timeToMinutes(r.hora_fin), defaultedEnd(dayOfWeek, s))
                                    - Max(timeToMinutes(r.hora_inicio),
                                          defaultedStart(dayOfWeek, s)))

\* C24: a computed split has its total in [0, 24h); for an interval that
\* ends before it starts the total is (end - start) + 24h, the normal part is
\* 0 and the whole total is overtime, whatever the settings and the day, at
\* every call site.
C24_MidnightWrap ==
    \A b \in {reviewBreakdown, reportBreakdown, olderBreakdown} \ {Null} :
        LET startMin == timeToMinutes(splitInput.report.hora_inicio)
            endMin == timeToMinutes(splitInput.report.hora_fin)
        IN  b.computed
                => /\ 0 <= b.totalMinutes /\ b.totalMinutes < MinutesPerDay
                   /\ endMin < startMin
                        => /\ b.totalMinutes = endMin - startMin + MinutesPerDay
                           /\ b.normalMinutes = 0
                           /\ b.extraMinutes = b.totalMinutes
                           /\ b.normal = 0
                           /\ b.extra = b.total

\* the approval screen and the overtime report have split 23:00-08:00 of a
\* weekday whose window starts before 08:00
C24_Witness ==
    /\ reviewBreakdown # Null /\ reviewBreakdown.computed
    /\ reportBreakdown # Null /\ reportBreakdown.computed
    /\ splitInput.report.hora_inicio = <<23, 0>>
    /\ splitInput.report.hora_fin = <<8, 0>>
    /\ getDay(splitInput.report.fecha_trabajada) = 2
    /\ reviewBreakdown.extraMinutes = 540

(* ------------------------------ summaries ------------------------------ *)
(* The totals the screens derive from the fetched reports: weeklyTotals    *)
(* and monthlyTechnicianSummary of the approval screen, summaryData of the *)
(* overtime report, generateReport of the report download, and the totals  *)
(* of the owner's dashboard.                                               *)

\* number of reports the summaries are computed from
MaxTotalsEntries == 2
TotalsIds == 1 .. MaxTotalsEntries

\* the client and the employee of report e
ClienteOf(e) == IF e % 2 = 1 THEN "PEP1" ELSE "PEP2"
DocumentoOf(e) == IF e % 3 = 0 THEN 2 ELSE 1

\* what a report was recorded with: a range with overtime at both ends, a
\* range of forty minutes across the end of the default window, or no range
TotalsRanges == {Range(<<7, 0>>, <<18, 0>>), Range(<<17, 10>>, <<17, 50>>), Legacy}
\* a Monday, the Sunday of its week, the Monday after
TotalsDates == {0, 6, 7}
TotalsSettings == {Null, EmptySettings}
\* dateFrom / dateTo of the report screens: the first week, or both weeks
DateRanges == {[from |-> 0, to |-> 6], [from |-> 0, to |-> 13]}

TotalsReport(e, fecha, r, st) ==
    [id |-> e, fecha_trabajada |-> fecha,
     hora_inicio |-> r.hora_inicio, hora_fin |-> r.hora_fin,
     horas |-> IF r = Legacy THEN LegacyHoras
               ELSE horasCalculadas(r.hora_inicio, r.hora_fin),
     aprobado |-> st, cliente |-> ClienteOf(e), documento_id |-> DocumentoOf(e)]

RECURSIVE SumOver(_, _)
SumOver(S, f) ==
    IF S = {} THEN 0
    ELSE LET e == CHOOSE x \in S : TRUE IN f[e] + SumOver(S \ {e}, f)

\* the status chain without its branch for aprobado === 3
weekPortionNoPartial(rep, bd) ==
    IF rep.aprobado = 1 THEN [approved |-> rep.horas, rejected |-> 0, pending |-> 0]
    ELSE IF rep.aprobado = 2 THEN [approved |-> 0, rejected |-> rep.horas, pending |-> 0]
    ELSE [approved |-> 0, rejected |-> 0, pending |-> rep.horas]

\* the status chain of weeklyTotals: what a report adds to approved, rejected
\* and pending of its week, bd being its breakdown
weekPortion(rep, bd) ==
    IF rep.aprobado = 1 THEN [approved |-> rep.horas, rejected |-> 0, pending |-> 0]
    ELSE IF rep.aprobado = 2 THEN [approved |-> 0, rejected |-> rep.horas, pending |-> 0]
    ELSE IF rep.aprobado = 3
         THEN [approved |-> bd.normal, rejected |-> bd.extra, pending |-> 0]
    ELSE [approved |-> 0, rejected |-> 0, pending |-> rep.horas]

\* report.cliente || 'Sin Cliente'
clientKey(rep) == IF rep.cliente = "" THEN "Sin Cliente" ELSE rep.cliente

\* the status chain of the client totals as the older screen has it, without
\* the branch for aprobado === 3
clientPortionNoPartial(rep, bd) ==
    IF rep.aprobado = 1 THEN [approved |-> rep.horas, rejected |-> 0, pending |-> 0]
    ELSE IF rep.aprobado = 2 THEN [approved |-> 0, rejected |-> rep.horas, pending |-> 0]
    ELSE [approved |-> 0, rejected |-> 0, pending |-> rep.horas]

\* the second copy of the status chain, for the client totals of the week
clientPortion(rep, bd) ==
    IF rep.aprobado = 1 THEN [approved |-> rep.horas, rejected |-> 0, pending |-> 0]
    ELSE IF rep.aprobado = 2 THEN [approved |-> 0, rejected |-> rep.horas, pending |-> 0]
    ELSE IF rep.aprobado = 3
         THEN [approved |-> bd.normal, rejected |-> bd.extra, pending |-> 0]
    ELSE [approved |-> 0, rejected |-> 0, pending |-> rep.horas]

\* weeklyTotals: one WeekData per Monday-to-Sunday week, keyed by its Monday
weeklyTotals(reps, s) ==
    LET dated == {e \in DOMAIN reps : reps[e].fecha_trabajada # NoDate}
        bd(e) == PayrollReview_calculateHoursBreakdown(reps[e], s)
    IN  [w \in {startOfWeek(reps[e].fecha_trabajada) : e \in dated} |->
            LET week == {e \in dated : startOfWeek(reps[e].fecha_trabajada) = w}
            IN  [totalHours |-> SumOver(week, [e \in week |-> reps[e].horas]),
                 extraHours |-> SumOver(week, [e \in week |-> bd(e).extra]),
                 approved |->
                     SumOver(week, [e \in week |-> weekPortion(reps[e], bd(e)).approved]),
                 rejected |->
                     SumOver(week, [e \in week |-> weekPortion(reps[e], bd(e)).rejected]),
                 pending |->
                     SumOver(week, [e \in week |-> weekPortion(reps[e], bd(e)).pending]),
                 byClient |->
                     [c \in {clientKey(reps[e]) : e \in week} |->
                         LET mine == {e \in week : clientKey(reps[e]) = c}
                         IN  [total |-> SumOver(mine, [e \in mine |-> reps[e].horas]),
                              approved |->
                                  SumOver(mine, [e \in mine |->
                                                    clientPortion(reps[e], bd(e)).approved]),
                              rejected |->
                                  SumOver(mine, [e \in mine |->
                                                    clientPortion(reps[e], bd(e)).rejected]),
                              pending |->
                                  SumOver(mine, [e \in mine |->
                                                    clientPortion(reps[e], bd(e)).pending])]]]]

\* reportDate >= from && reportDate <= to
inDateRange(rep, range) ==
    rep.fecha_trabajada >= range.from /\ rep.fecha_trabajada <= range.to

\* summaryData of the overtime report (selectedArea "all"): per employee the
\* normal, overtime and total hours of the reports in the date range
summaryData(reps, s, range) ==
    LET used == {e \in DOMAIN reps : /\ reps[e].fecha_trabajada # NoDate
                                     /\ inDateRange(reps[e], range)}
        bd(e) == OvertimeReport_calculateHoursBreakdown(reps[e], s)
    IN  [empId \in {reps[e].documento_id : e \in used} |->
            LET mine == {e \in used : reps[e].documento_id = empId}
            IN  [normal |-> SumOver(mine, [e \in mine |-> bd(e).normal]),
                 extra |-> SumOver(mine, [e \in mine |->
                               IF reps[e].aprobado # 3 THEN bd(e).extra ELSE 0]),
                 total |-> SumOver(mine, [e \in mine |-> bd(e).total])]]

\* monthlyTechnicianSummary: per employee the hours and the number of reports
monthlyTechnicianSummary(reps, range) ==
    LET used == {e \in DOMAIN reps : /\ reps[e].fecha_trabajada # NoDate
                                     /\ inDateRange(reps[e], range)}
    IN  [empId \in {reps[e].documento_id : e \in used} |->
            LET mine == {e \in used : reps[e].documento_id = empId}
            IN  [total |-> SumOver(mine, [e \in mine |-> reps[e].horas]),
                 reports |-> Cardinality(mine)]]

\* generateReport of the report download: the reports of the range with
\* aprobado === 1, grouped by client; the grand total is the sum of the groups
generateReport(reps, range) ==
    LET filteredReportes == {e \in DOMAIN reps : /\ inDateRange(reps[e], range)
                                                 /\ reps[e].aprobado = 1}
        reportsByCompany ==
            [c \in {reps[e].cliente : e \in filteredReportes} |->
                LET mine == {e \in filteredReportes : reps[e].cliente = c}
                IN  SumOver(mine, [e \in mine |-> reps[e].horas])]
    IN  IF filteredReportes = {}
        THEN [error |-> TRUE, preview |-> << >>, grandTotalHours |-> 0]
        ELSE [error |-> FALSE, preview |-> reportsByCompany,
              grandTotalHours |->
                  SumOver(DOMAIN reportsByCompany, reportsByCompany)]

\* totalHorasMes of the owner's dashboard: the hours of the owner's records of
\* the current month (every date of the model lies in it)
totalHorasMes(reps, documento) ==
    LET mine == {e \in DOMAIN reps : reps[e].documento_id = documento}
    IN  SumOver(mine, [e \in mine |-> reps[e].horas])

InitTotals ==
    /\ \E f \in [TotalsIds -> TotalsDates], r \in [TotalsIds -> TotalsRanges],
          st \in [TotalsIds -> Statuses], s \in TotalsSettings, range \in DateRanges,
          c2 \in {ClienteOf(e) : e \in TotalsIds} :
           totalsInput = [reports |-> [e \in TotalsIds |->
                                          IF e = 2
                                          THEN [TotalsReport(e, f[e], r[e], st[e])
                                                   EXCEPT !.cliente = c2]
                                          ELSE TotalsReport(e, f[e], r[e], st[e])],
                          settings |-> s, range |-> range]
    /\ totals = NoTotals
    /\ WorkflowIdle
    /\ hoursRecords = << >>
    /\ editingRecord = 0
    /\ FormIdle
    /\ SplitIdle

notTotals == <<wfVars, ownerVars, formVars, splitVars, totalsInput>>

\* the approval screen renders its week cards
RenderWeeklyTotals ==
    /\ totals.weekly = Null
    /\ totals' = [totals EXCEPT
                     !.weekly = Computed(weeklyTotals(totalsInput.reports,
                                                     totalsInput.settings))]
    /\ UNCHANGED notTotals

\* the overtime report renders its table
RenderSummaryData ==
    /\ totals.summary = Null
    /\ totals' = [totals EXCEPT
                     !.summary = Computed(summaryData(totalsInput.reports,
                                                      totalsInput.settings,
                                                      totalsInput.range))]
    /\ UNCHANGED notTotals

\* the approval screen renders its technicians view
RenderMonthlyTechnicianSummary ==
    /\ totals.monthly = Null
    /\ totals' = [totals EXCEPT
                     !.monthly = Computed(monthlyTechnicianSummary(totalsInput.reports,
                                                                   totalsInput.range))]
    /\ UNCHANGED notTotals

\* the report download: the Generar button
ClickGenerateReport ==
    /\ totals.payable = Null
    /\ totals' = [totals EXCEPT
                     !.payable = Computed(generateReport(totalsInput.reports,
                                                         totalsInput.range))]
    /\ UNCHANGED notTotals

\* the dashboard of the owner of report 1 renders its totals
RenderOwnTotals ==
    /\ totals.own = Null
    /\ totals' = [totals EXCEPT
                     !.own = Computed(totalHorasMes(totalsInput.reports, DocumentoOf(1)))]
    /\ UNCHANGED notTotals

NextTotals ==
    \/ RenderWeeklyTotals
    \/ RenderSummaryData
    \/ RenderMonthlyTechnicianSummary
    \/ ClickGenerateReport
    \/ RenderOwnTotals

SpecTotals == InitTotals /\ [][NextTotals]_vars

(* ---------------------- properties of the summaries ------------------- *)
\* the reports of the week that starts on day w, and those of one status
InWeek(w) ==
    {e \in TotalsIds : /\ totalsInput.reports[e].fecha_trabajada # NoDate
                       /\ startOfWeek(totalsInput.reports[e].fecha_trabajada) = w}
InWeekWith(w, st) == {e \in InWeek(w) : totalsInput.reports[e].aprobado = st}
HorasOf(S) == SumOver(S, [e \in S |-> totalsInput.reports[e].horas])
\* the normal and the overtime portion of a report on the approval screen
NormalOf(S) ==
    SumOver(S, [e \in S |-> PayrollReview_calculateHoursBreakdown(
                                totalsInput.reports[e], totalsInput.settings).normal])
ExtraOf(S) ==
    SumOver(S, [e \in S |-> PayrollReview_calculateHoursBreakdown(
                                totalsInput.reports[e], totalsInput.settings).extra])

\* what each status adds to the week's approved, rejected and pending
WeekBuckets(w, week) ==
    /\ week.totalHours = HorasOf(InWeek(w))
    /\ week.approved = HorasOf(InWeekWith(w, Approved))
                           + NormalOf(InWeekWith(w, ApprovedNormalOnly))
    /\ week.rejected = HorasOf(InWeekWith(w, Rejected))
                           + ExtraOf(InWeekWith(w, ApprovedNormalOnly))
    /\ week.pending = HorasOf(InWeekWith(w, Pending))

\* C12: in every week of the weekly summary totalHours is the sum of the
\* entries' hours, Approved entries add their hours to approved, Rejected ones
\* to rejected, Pending ones to pending, ApprovedNormalOnly ones their normal
\* portion to approved and their overtime portion to rejected, and approved +
\* rejected + pending = totalHours.
C12_WeeklyPartition ==
    totals.weekly # Null =>
        \A w \in DOMAIN totals.weekly.value :
            LET week == totals.weekly.value[w]
            IN  /\ WeekBuckets(w, week)
                /\ week.approved + week.rejected + week.pending = week.totalHours

\* C12 as the code has it: the same buckets; approved + rejected + pending =
\* totalHours exactly in a week without ApprovedNormalOnly entries, and within
\* one hundredth of an hour for each ApprovedNormalOnly entry of the week, whose
\* two portions are each rounded to two decimals.
C12_WeeklyPartitionRounded ==
    totals.weekly # Null =>
        \A w \in DOMAIN totals.weekly.value :
            LET week == totals.weekly.value[w]
            IN  /\ WeekBuckets(w, week)
                /\ Abs(week.approved + week.rejected + week.pending - week.totalHours)
                       <= UnitsPerHundredth
                              * Cardinality(InWeekWith(w, ApprovedNormalOnly))

\* the summary of a week with an Approved entry and an ApprovedNormalOnly entry
\* whose rounded portions do not add up to its hours
C12_Witness ==
    /\ totals.weekly # Null
    /\ \E w \in DOMAIN totals.weekly.value :
           /\ ExtraOf(InWeekWith(w, ApprovedNormalOnly)) > 0
           /\ InWeekWith(w, Approved) # {}
           /\ totals.weekly.value[w].rejected > 0
           /\ totals.weekly.value[w].approved + totals.weekly.value[w].rejected
                  + totals.weekly.value[w].pending # totals.weekly.value[w].totalHours

\* the sum of one field over the client buckets of a week
ClientSum(week, field) ==
    SumOver(DOMAIN week.byClient, [c \in DOMAIN week.byClient |-> week.byClient[c][field]])

NotRejected ==
    [e \in {x \in TotalsIds : totalsInput.reports[x].aprobado # Rejected} |->
        totalsInput.reports[e]]
\* the entry of key k in a summary, or zero in every field when k has none
TotalAt(summary, k, field) == IF k \in DOMAIN summary THEN summary[k][field] ELSE 0

\* C13: a Rejected entry adds nothing to a downstream total: the weekly total,
\* the per-employee normal, overtime and total of the overtime report, the
\* monthly per-technician total and the owner's accumulated total are each
\* what they are for the same reports without the Rejected ones.
C13_RejectedCountsZero ==
    /\ totals.weekly # Null =>
           \A w \in DOMAIN totals.weekly.value :
               totals.weekly.value[w].totalHours =
                   TotalAt(weeklyTotals(NotRejected, totalsInput.settings), w, "totalHours")
    /\ totals.summary # Null =>
           \A emp \in DOMAIN totals.summary.value :
               \A field \in {"normal", "extra", "total"} :
                   totals.summary.value[emp][field] =
                       TotalAt(summaryData(NotRejected, totalsInput.settings,
                                           totalsInput.range), emp, field)
    /\ totals.monthly # Null =>
           \A emp \in DOMAIN totals.monthly.value :
               totals.monthly.value[emp].total =
                   TotalAt(monthlyTechnicianSummary(NotRejected, totalsInput.range),
                           emp, "total")
    /\ totals.own # Null =>
           totals.own.value = totalHorasMes(NotRejected, DocumentoOf(1))

\* the reports of client c in the date range that have status st
InRangeWith(c, st) ==
    {e \in TotalsIds : /\ inDateRange(totalsInput.reports[e], totalsInput.range)
                       /\ totalsInput.reports[e].cliente = c
                       /\ totalsInput.reports[e].aprobado = st}
\* the total the generated report shows for client c (none shown: zero)
PayableOf(c) ==
    IF c \in DOMAIN totals.payable.value.preview
    THEN totals.payable.value.preview[c] ELSE 0

\* C14: the per-client totals generated for a date range are, for each client,
\* the full hours of its Approved entries of the range plus the normal portion
\* of its ApprovedNormalOnly entries, nothing being counted for Pending and
\* Rejected entries; the grand total is the sum of the per-client totals.
C14_PayableTotals ==
    totals.payable # Null =>
        /\ \A c \in {ClienteOf(e) : e \in TotalsIds} :
               PayableOf(c) = HorasOf(InRangeWith(c, Approved))
                                 + NormalOf(InRangeWith(c, ApprovedNormalOnly))
        /\ totals.payable.value.grandTotalHours =
               SumOver({ClienteOf(e) : e \in TotalsIds},
                       [c \in {ClienteOf(e) : e \in TotalsIds} |-> PayableOf(c)])

(* ---------------------------- the entry form --------------------------- *)
(* CalendarHoursEntry in its two versions: the hour-count form, which      *)
(* checks the daily and weekly limits, and the time-range form.  The form  *)
(* fields the user has typed in are the input of a submission.             *)

\* the active clients handed to the form (elementoPEP) and the areas of one
clientes == {"PEP1", "PEP2"}
areasOf(cliente) == IF cliente = "PEP2" THEN {"Otra"} ELSE {"Area"}

\* daily_limits / weekly_limit as the administrator saved them
CustomSettings ==
    [weekly_limit |-> Hours(WEEKLY_HOURS_LIMIT_DEFAULT),
     daily_limits |-> [monday |-> Hours(12), tuesday |-> Hours(12),
                       wednesday |-> Hours(12), thursday |-> Hours(12),
                       friday |-> Hours(12), saturday |-> Hours(12),
                       sunday |-> 0]]
FormSettings == {Null, CustomSettings}

DAILY_LIMITS_DEFAULT(dayOfWeek) ==
    IF dayOfWeek \in 1 .. 4 THEN Hours(9) ELSE IF dayOfWeek = 5 THEN Hours(8) ELSE 0

\* settings?.weekly_limit || WEEKLY_HOURS_LIMIT_DEFAULT
activeWeeklyLimit ==
    IF formSettings = Null \/ formSettings.weekly_limit = 0
    THEN Hours(WEEKLY_HOURS_LIMIT_DEFAULT)
    ELSE formSettings.weekly_limit

activeDailyLimits(dayOfWeek) ==
    IF formSettings # Null /\ formSettings.daily_limits # Null
    THEN LET l == formSettings.daily_limits
         IN  IF dayOfWeek = 1 THEN l.monday
             ELSE IF dayOfWeek = 2 THEN l.tuesday
             ELSE IF dayOfWeek = 3 THEN l.wednesday
             ELSE IF dayOfWeek = 4 THEN l.thursday
             ELSE IF dayOfWeek = 5 THEN l.friday
             ELSE IF dayOfWeek = 6 THEN l.saturday
             ELSE l.sunday
    ELSE DAILY_LIMITS_DEFAULT(dayOfWeek)

\* existingRecords and recordToEdit, the props the dashboard hands to the form
existingRecords == hoursRecords
recordToEdit == existingRecords[editingRecord]
RecordIds == 1 .. Len(existingRecords)

getWeeklyHours(date) ==
    SumHoras({i \in RecordIds :
                 isWithinInterval(existingRecords[i].fecha,
                                  startOfWeek(date), endOfWeek(date))},
             existingRecords)

getDailyHours(date) ==
    SumHoras({i \in RecordIds : existingRecords[i].fecha = date}, existingRecords)

\* the hours of the record being edited left in the day's total
horasEditandoOmitted == Hours(0)

\* recordToEdit ? recordToEdit.horas : 0
horasEditando == IF editingRecord # 0 THEN recordToEdit.horas ELSE 0

\* the same in weeklyHoursInfo
editingHours == IF editingRecord # 0 THEN recordToEdit.horas ELSE 0

weeklyHoursInfo ==
    IF selectedDate = NoDate
    THEN [used |-> 0, remaining |-> activeWeeklyLimit]
    ELSE LET adjustedUsed == getWeeklyHours(selectedDate) - editingHours
         IN  [used |-> adjustedUsed, remaining |-> activeWeeklyLimit - adjustedUsed]

\* the result of the checks of a submission: the message set with
\* setWeeklyHoursError ("silent" when the handler returns without one, "ok"
\* when every check passes) and the number of hours the message reports as
\* still available (NoHeadroom when it reports none)
Verdict(reason, disponibles) == [reason |-> reason, disponibles |-> disponibles]

\* the checks of handleSubmit of the hour-count form, in the order of the code
validateHours(f) ==
    IF f.cliente = "" THEN Verdict("silent", NoHeadroom)
    ELSE IF f.area = "" THEN Verdict("silent", NoHeadroom)
    ELSE IF f.horas <= 0 THEN Verdict("silent", NoHeadroom)
    ELSE IF selectedDate = NoDate THEN Verdict("silent", NoHeadroom)
    ELSE IF f.cliente \notin clientes THEN Verdict("cliente_no_encontrado", NoHeadroom)
    ELSE
    LET horasNumero == f.horas
        maxPermitido == activeDailyLimits(getDay(selectedDate))
        horasYaRegistradas == getDailyHours(selectedDate)
        horasExistentesAjustadas == horasYaRegistradas - horasEditando
        totalHorasDia == horasExistentesAjustadas + horasNumero
        disponibles == maxPermitido - horasExistentesAjustadas
    IN  IF maxPermitido = 0 THEN Verdict("dia_cerrado", NoHeadroom)
        ELSE IF totalHorasDia > maxPermitido
             THEN IF disponibles <= 0
                  THEN Verdict("limite_diario_alcanzado", NoHeadroom)
                  ELSE Verdict("limite_diario", disponibles)
        ELSE IF horasNumero > weeklyHoursInfo.remaining
             THEN Verdict("limite_semanal", weeklyHoursInfo.remaining)
        ELSE Verdict("ok", NoHeadroom)

\* the range test with a strict comparison
invalidRangeStrict(ini, fin) == horasCalculadas(ini, fin) < 0

\* horasCalculadas <= 0
invalidRange(ini, fin) == horasCalculadas(ini, fin) <= 0

\* dynamicAreas.length > 0 ? dynamicAreas : selectedCompanyData.areas
clienteAreas(f) == IF f.dynamicAreas # {} THEN f.dynamicAreas ELSE areasOf(f.cliente)


\* !clienteAreas.includes(areaCliente.trim())
areaMismatch(f) == f.area \notin clienteAreas(f)

\* the checks of handleSubmit of the time-range form, in the order of the code
validateRange(f) ==
    IF f.cliente = "" THEN Verdict("silent", NoHeadroom)
    ELSE IF f.area = "" THEN Verdict("silent", NoHeadroom)
    ELSE IF f.horaInicio = NoTime \/ f.horaFin = NoTime
         THEN Verdict("falta_hora", NoHeadroom)
    ELSE IF selectedDate = NoDate THEN Verdict("silent", NoHeadroom)
    ELSE IF f.cliente \notin clientes THEN Verdict("cliente_no_encontrado", NoHeadroom)
    ELSE IF invalidRange(f.horaInicio, f.horaFin)
         THEN Verdict("hora_fin_posterior", NoHeadroom)
    ELSE IF f.descripcion = "" THEN Verdict("descripcion_obligatoria", NoHeadroom)
    ELSE IF areaMismatch(f) THEN Verdict("area_no_disponible", NoHeadroom)
    ELSE IF f.tipoActividad = "En Cliente" /\ ~f.ubicacion /\ ~f.ubicacionRechazada
         THEN Verdict("requiere_ubicacion", NoHeadroom)
    ELSE IF f.tipoActividad = "En Cliente" /\ ~f.firma
         THEN Verdict("requiere_firma", NoHeadroom)
    ELSE Verdict("ok", NoHeadroom)

\* what a submission did: the form submitted, the verdict of the checks, and,
\* when onSave was called, what it was called with and whether the store
\* accepted the save; request is what onSave sent to the store (Null when the
\* checks refused the submission)
Submitted(f, v, horas, fecha, editing, ok, request) ==
    [accepted |-> v.reason = "ok", reason |-> v.reason, disponibles |-> v.disponibles,
     form |-> f, horas |-> horas, fecha |-> fecha, editing |-> editing, saved |-> ok,
     request |-> request]

\* the forms a user submits: the hour-count form
HoursForms ==
    [cliente : {"", "PEP1", "PEP9"}, area : {"", "Area"},
     horas : {0, Hours(1), Hours(3), Hours(4), Hours(6)}]

\* the time-range form: a complete office entry, the same with one field left
\* empty or wrong or with the client's areas not loaded (dynamicAreas empty),
\* and the on-site entry with and without its evidence
OfficeEntry ==
    [cliente |-> "PEP1", area |-> "Area", descripcion |-> "d",
     tipoActividad |-> "En Oficina", ubicacion |-> FALSE,
     ubicacionRechazada |-> FALSE, firma |-> FALSE, dynamicAreas |-> {"Area"}]
SiteEntry ==
    [OfficeEntry EXCEPT !.tipoActividad = "En Cliente", !.ubicacion = TRUE, !.firma = TRUE]
RangeFields ==
    {OfficeEntry,
     [OfficeEntry EXCEPT !.cliente = ""], [OfficeEntry EXCEPT !.cliente = "PEP9"],
     [OfficeEntry EXCEPT !.area = ""], [OfficeEntry EXCEPT !.area = "Otra"],
     [OfficeEntry EXCEPT !.descripcion = ""],
     [OfficeEntry EXCEPT !.dynamicAreas = {}],
     SiteEntry,
     [SiteEntry EXCEPT !.ubicacion = FALSE, !.ubicacionRechazada = TRUE],
     [SiteEntry EXCEPT !.ubicacion = FALSE],
     [SiteEntry EXCEPT !.firma = FALSE]}
RangeStarts == {NoTime, <<8, 0>>, <<13, 0>>}
RangeEnds == {NoTime, <<8, 0>>, <<13, 0>>, <<17, 0>>}
RangeForm(x, ini, fin) ==
    [cliente |-> x.cliente, area |-> x.area, descripcion |-> x.descripcion,
     tipoActividad |-> x.tipoActividad, ubicacion |-> x.ubicacion,
     ubicacionRechazada |-> x.ubicacionRechazada, firma |-> x.firma,
     dynamicAreas |-> x.dynamicAreas, horaInicio |-> ini, horaFin |-> fin]
RangeForms == {RangeForm(x, ini, fin) : x \in RangeFields, ini \in RangeStarts, fin \in RangeEnds}

\* the owner's records when the dashboard is opened: a week with 42 hours, the
\* Tuesday entry rejected by the approver
EntryList ==
    << [id |-> 1, horas |-> Hours(10), fecha |-> 0, aprobado |-> Approved],
       [id |-> 2, horas |-> Hours(6), fecha |-> 1, aprobado |-> Rejected],
       [id |-> 3, horas |-> Hours(10), fecha |-> 2, aprobado |-> Approved],
       [id |-> 4, horas |-> Hours(10), fecha |-> 3, aprobado |-> Approved],
       [id |-> 5, horas |-> Hours(6), fecha |-> 4, aprobado |-> Pending] >>

\* the days of the calendar the user clicks: the Tuesday, Saturday and Sunday
\* of the recorded week, the Tuesday after, and a day after today
ClickDates == {1, 5, 6, 8, Today + 1}

InitEntry ==
    /\ formKind \in {"hours", "range"}
    /\ actor \in {"operative", "coordinator"}
    /\ formSettings \in FormSettings
    /\ selectedDate = NoDate
    /\ dialogOpen = FALSE
    /\ outcome = NoOutcome
    /\ areaForm = NoAreaForm
    /\ hoursRecords = EntryList
    /\ editingRecord = 0
    /\ WorkflowIdle
    /\ SplitIdle
    /\ TotalsIdle

notForm == <<wfVars, splitVars, totalsVars, formKind, actor, formSettings, areaForm>>

\* a day is never counted as a future day
isFutureNever(date) == FALSE

\* date > new Date(): the day (its midnight) is after the present moment
isFuture(date) == date > Today

\* handleDayClick: no future day, and in the hour-count form no Sunday
handleDayClick(date) ==
    /\ ~dialogOpen
    /\ ~isFuture(date)
    /\ formKind = "hours" => getDay(date) # 0
    /\ selectedDate' = date
    /\ dialogOpen' = TRUE
    /\ outcome' = NoOutcome
    /\ UNCHANGED <<hoursRecords, editingRecord>>
    /\ UNCHANGED notForm

\* the edit button of a rejected record (the operative dashboard passes onEdit
\* to the history, the coordinator dashboard does not): handleEditReport, then
\* the form's effect on recordToEdit
onEdit(id) ==
    /\ actor = "operative"
    /\ ~dialogOpen
    /\ editButtonShown(hoursRecords[id])
    /\ editingRecord' = id
    /\ selectedDate' = hoursRecords[id].fecha
    /\ dialogOpen' = TRUE
    /\ outcome' = NoOutcome
    /\ UNCHANGED hoursRecords
    /\ UNCHANGED notForm

\* handleOpenChange(false): the dialog is dismissed, onCancelEdit is called
handleOpenChange ==
    /\ dialogOpen
    /\ dialogOpen' = FALSE
    /\ editingRecord' = 0
    /\ outcome' = NoOutcome
    /\ UNCHANGED <<hoursRecords, selectedDate>>
    /\ UNCHANGED notForm

\* the Cancelar button of the dialog: onClick={() => setDialogOpen(false)},
\* which does not go through handleOpenChange
cancelButton ==
    /\ dialogOpen
    /\ dialogOpen' = FALSE
    /\ outcome' = NoOutcome
    /\ UNCHANGED <<hoursRecords, editingRecord, selectedDate>>
    /\ UNCHANGED notForm

\* the create request without an aprobado field
NoStatus == -1

\* aprobado of the local record of a new entry, in every dashboard 0
newRecordAprobadoOperative == Pending

\* aprobado of the local record of a new entry: 0 in the operative dashboard,
\* 1 in the coordinator dashboard
newRecordAprobado == IF actor = "coordinator" THEN Approved ELSE Pending

\* the request onSave sends to the store: reportesAPI.update with aprobado 0 in
\* the update branch, reportesAPI.create without aprobado in the operative
\* dashboard and with aprobado 1 in the coordinator dashboard
saveRequest ==
    IF actor = "coordinator" THEN [kind |-> "create", aprobado |-> Approved]
    ELSE IF editingRecord # 0 THEN [kind |-> "update", aprobado |-> Pending]
    ELSE [kind |-> "create", aprobado |-> NoStatus]

\* handleSaveHours of the dashboard, called as onSave: in the operative
\* dashboard the update branch when editingRecord is set, else the create
\* branch; in the coordinator dashboard always a create (its new record has
\* no id); ok is the store's answer
handleSaveHours(horas, fecha, ok) ==
    IF ~ok
    THEN UNCHANGED <<hoursRecords, editingRecord>>
    ELSE IF actor = "coordinator"
    THEN /\ hoursRecords' =
                Append(hoursRecords,
                       [id |-> 0, horas |-> horas, fecha |-> fecha,
                        aprobado |-> newRecordAprobado])
         /\ UNCHANGED editingRecord
    ELSE IF editingRecord # 0
    THEN /\ hoursRecords' =
                [hoursRecords EXCEPT ![editingRecord] =
                    [@ EXCEPT !.horas = horas, !.aprobado = Pending, !.fecha = fecha]]
         /\ editingRecord' = 0
    ELSE /\ hoursRecords' =
                Append(hoursRecords,
                       [id |-> Len(hoursRecords) + 1, horas |-> horas, fecha |-> fecha,
                        aprobado |-> newRecordAprobado])
         /\ UNCHANGED editingRecord

\* the effect on weeklyHoursError: the message goes away after five seconds
clearWeeklyHoursError ==
    /\ outcome # NoOutcome
    /\ outcome' = NoOutcome
    /\ UNCHANGED <<hoursRecords, editingRecord, selectedDate, dialogOpen>>
    /\ UNCHANGED notForm

\* handleSubmit with the verdict v of its checks, saving horas when they pass;
\* the handler first clears the message of the submission before, so a
\* submission is taken from the state in which none is showing
submit(f, v, horas, ok) ==
    /\ dialogOpen
    /\ outcome = NoOutcome
    /\ outcome' = Submitted(f, v, horas, selectedDate, editingRecord, ok,
                            IF v.reason = "ok" THEN saveRequest ELSE Null)
    /\ IF v.reason = "ok"
       THEN /\ (ok /\ editingRecord = 0) => Len(hoursRecords) < MaxRecords
            /\ handleSaveHours(horas, selectedDate, ok)
            /\ dialogOpen' = FALSE
       ELSE /\ ok
            /\ UNCHANGED <<hoursRecords, editingRecord, dialogOpen>>
    /\ UNCHANGED selectedDate
    /\ UNCHANGED notForm

\* handleSubmit of the hour-count form
handleSubmitHours(f, ok) ==
    /\ formKind = "hours"
    /\ submit(f, validateHours(f), f.horas, ok)

\* handleSubmit of the time-range form
handleSubmitRange(f, ok) ==
    /\ formKind = "range"
    /\ submit(f, validateRange(f), horasCalculadas(f.horaInicio, f.horaFin), ok)

NextEntry ==
    \/ \E date \in ClickDates : handleDayClick(date)
    \/ \E id \in 1 .. Len(hoursRecords) : onEdit(id)
    \/ handleOpenChange
    \/ cancelButton
    \/ clearWeeklyHoursError
    \/ \E f \in HoursForms, ok \in BOOLEAN : handleSubmitHours(f, ok)
    \/ \E f \in RangeForms, ok \in BOOLEAN : handleSubmitRange(f, ok)

SpecEntry == InitEntry /\ [][NextEntry]_vars

(* ------------------------- saves under way ----------------------------- *)
(* handleSaveHours is async: the form calls onSave without awaiting it and  *)
(* closes, and the dashboard adds the record to the list of the render the  *)
(* handler was created in once the store has answered.  Here a submission   *)
(* sends the save and the answer arrives in a later step; store is the      *)
(* list of records the remote side holds.                                   *)

\* number of entries created in one session
MaxSaves == 2

\* the call of onSave under way; seen and editing are hoursRecords and
\* editingRecord of the render handleSaveHours was created in
SaveRequest(horas, fecha) ==
    [handler |-> "save", horas |-> horas, fecha |-> fecha, editing |-> editingRecord,
     coordinator |-> actor = "coordinator", seen |-> hoursRecords]

\* the forms submitted while saves are under way: 4 or 6 hours for the
\* client, and one with the client left empty
SaveForms ==
    {[cliente |-> "PEP1", area |-> "Area", horas |-> Hours(4)],
     [cliente |-> "PEP1", area |-> "Area", horas |-> Hours(6)],
     [cliente |-> "", area |-> "Area", horas |-> Hours(4)]}
\* the days clicked: the Tuesday of the recorded week and the Tuesday after
SaveDates == {1, 8}

InitSaves ==
    /\ formKind = "hours"
    /\ actor \in {"operative", "coordinator"}
    /\ formSettings \in FormSettings
    /\ selectedDate = NoDate
    /\ dialogOpen = FALSE
    /\ outcome = NoOutcome
    /\ areaForm = NoAreaForm
    /\ hoursRecords = EntryList
    /\ editingRecord = 0
    /\ store = EntryList
    /\ reports = << >>
    /\ settings = Null
    /\ loading = FALSE
    /\ error = FALSE
    /\ processingId = 0
    /\ bulkProcessing = FALSE
    /\ requests = {}
    /\ fetching = [single |-> 0, bulk |-> FALSE, plain |-> 0]
    /\ bulkSettled = {}
    /\ SplitIdle
    /\ TotalsIdle

\* handleSubmit of the hour-count form up to the first await of onSave
handleSubmitSend(f) ==
    LET v == validateHours(f)
    IN  /\ formKind = "hours"
        /\ dialogOpen
        /\ outcome = NoOutcome
        /\ outcome' = Submitted(f, v, f.horas, selectedDate, editingRecord, TRUE,
                                IF v.reason = "ok" THEN saveRequest ELSE Null)
        /\ IF v.reason = "ok"
           THEN /\ Cardinality(requests) < MaxRequests
                /\ SaveRequest(f.horas, selectedDate) \notin requests
                /\ requests' = requests \cup {SaveRequest(f.horas, selectedDate)}
                /\ dialogOpen' = FALSE
           ELSE UNCHANGED <<requests, dialogOpen>>
        /\ UNCHANGED <<hoursRecords, editingRecord, selectedDate, store>>
        /\ UNCHANGED <<reports, settings, loading, error, processingId, bulkProcessing,
                       fetching, bulkSettled>>
        /\ UNCHANGED <<formKind, actor, formSettings, areaForm, splitVars, totalsVars>>

\* handleSaveHours after its awaits: the store has created or updated the
\* report, and the local list becomes the list of the handler's render with
\* the record added or replaced
SaveResolved(q) ==
    /\ q \in requests
    /\ requests' = requests \ {q}
    /\ IF q.coordinator
       THEN /\ Len(store) < Len(EntryList) + MaxSaves
            /\ store' = Append(store, [id |-> Len(store) + 1, horas |-> q.horas,
                                       fecha |-> q.fecha, aprobado |-> Approved])
            /\ hoursRecords' = Append(q.seen, [id |-> 0, horas |-> q.horas,
                                               fecha |-> q.fecha, aprobado |-> Approved])
            /\ UNCHANGED editingRecord
       ELSE IF q.editing # 0
       THEN /\ store' = [store EXCEPT ![q.editing] =
                            [@ EXCEPT !.horas = q.horas, !.aprobado = Pending]]
            /\ hoursRecords' = [q.seen EXCEPT ![q.editing] =
                                    [@ EXCEPT !.horas = q.horas, !.aprobado = Pending,
                                              !.fecha = q.fecha]]
            /\ editingRecord' = 0
       ELSE /\ Len(store) < Len(EntryList) + MaxSaves
            /\ store' = Append(store, [id |-> Len(store) + 1, horas |-> q.horas,
                                       fecha |-> q.fecha, aprobado |-> Pending])
            /\ hoursRecords' = Append(q.seen, [id |-> Len(store) + 1, horas |-> q.horas,
                                               fecha |-> q.fecha, aprobado |-> Pending])
            /\ UNCHANGED editingRecord
    /\ UNCHANGED <<selectedDate, dialogOpen, outcome>>
    /\ UNCHANGED <<reports, settings, loading, error, processingId, bulkProcessing,
                   fetching, bulkSettled>>
    /\ UNCHANGED <<formKind, actor, formSettings, areaForm, splitVars, totalsVars>>

\* handleSaveHours when a request fails: catch
SaveFailed(q) ==
    /\ q \in requests
    /\ requests' = requests \ {q}
    /\ UNCHANGED <<store, hoursRecords, editingRecord, selectedDate, dialogOpen, outcome>>
    /\ UNCHANGED <<reports, settings, loading, error, processingId, bulkProcessing,
                   fetching, bulkSettled>>
    /\ UNCHANGED <<formKind, actor, formSettings, areaForm, splitVars, totalsVars>>

NextSaves ==
    \/ \E date \in SaveDates : handleDayClick(date)
    \/ \E id \in 1 .. Len(hoursRecords) : onEdit(id)
    \/ handleOpenChange
    \/ cancelButton
    \/ clearWeeklyHoursError
    \/ \E f \in SaveForms : handleSubmitSend(f)
    \/ \E q \in requests : SaveResolved(q)
    \/ \E q \in requests : SaveFailed(q)

SpecSaves == InitSaves /\ [][NextSaves]_vars

(* ----------------------- the areas of the client ----------------------- *)
(* The time-range form while its dialog is open: the client and area        *)
(* selects, the effect that loads the areas of the selected client from     *)
(* areasEnCompanyAPI, and the submission of an otherwise complete entry.    *)

\* the areas offered by the area select (allAreas)
AreaChoices == UNION {areasOf(c) : c \in clientes}

\* areasEnCompanyAPI.getByCompany(selectedCliente) under way
AreasRequest(c) == [handler |-> "areas", cliente |-> c]

InitAreas ==
    /\ formKind = "range"
    /\ actor = "operative"
    /\ formSettings = Null
    /\ selectedDate = 8
    /\ dialogOpen = TRUE
    /\ outcome = NoOutcome
    /\ areaForm = NoAreaForm
    /\ hoursRecords = EntryList
    /\ editingRecord = 0
    /\ WorkflowIdle
    /\ SplitIdle
    /\ TotalsIdle

notAreas == <<store, reports, settings, loading, error, processingId, bulkProcessing,
              fetching, bulkSettled, splitVars, totalsVars, formKind, actor, formSettings>>

\* filteredClientes: with an area selected, the clients that have it
filteredClientes ==
    IF areaForm.areaCliente # ""
    THEN {c \in clientes : areaForm.areaCliente \in areasOf(c)}
    ELSE clientes

\* handleClienteChange, and the effect on selectedCliente up to its await
handleClienteChange(newClienteId) ==
    /\ dialogOpen
    /\ newClienteId \in filteredClientes
    /\ newClienteId # areaForm.selectedCliente
    /\ AreasRequest(newClienteId) \notin requests
    /\ Cardinality(requests) < MaxRequests
    /\ areaForm' = [areaForm EXCEPT !.selectedCliente = newClienteId]
    /\ requests' = requests \cup {AreasRequest(newClienteId)}
    /\ outcome' = NoOutcome
    /\ UNCHANGED <<hoursRecords, editingRecord, selectedDate, dialogOpen>>
    /\ UNCHANGED notAreas

\* handleAreaChange: the client is cleared when the new area is not among
\* clienteAreas, and the effect then empties dynamicAreas
handleAreaChange(newArea) ==
    /\ dialogOpen
    /\ newArea # areaForm.areaCliente
    /\ areaForm' =
           IF /\ areaForm.selectedCliente # ""
              /\ newArea \notin clienteAreas([cliente |-> areaForm.selectedCliente,
                                              dynamicAreas |-> areaForm.dynamicAreas])
           THEN [selectedCliente |-> "", areaCliente |-> newArea, dynamicAreas |-> {}]
           ELSE [areaForm EXCEPT !.areaCliente = newArea]
    /\ outcome' = NoOutcome
    /\ UNCHANGED <<hoursRecords, editingRecord, selectedDate, dialogOpen, requests>>
    /\ UNCHANGED notAreas

\* loadAreasForCliente after its await: setDynamicAreas(areaNames)
AreasResolved(q) ==
    /\ q \in requests
    /\ requests' = requests \ {q}
    /\ areaForm' = [areaForm EXCEPT !.dynamicAreas = areasOf(q.cliente)]
    /\ UNCHANGED <<hoursRecords, editingRecord, selectedDate, dialogOpen, outcome>>
    /\ UNCHANGED notAreas

\* loadAreasForCliente when the request fails: setDynamicAreas([])
AreasFailed(q) ==
    /\ q \in requests
    /\ requests' = requests \ {q}
    /\ areaForm' = [areaForm EXCEPT !.dynamicAreas = {}]
    /\ UNCHANGED <<hoursRecords, editingRecord, selectedDate, dialogOpen, outcome>>
    /\ UNCHANGED notAreas

\* the entry the dialog holds: the selects, 08:00-13:00 in the office with a
\* description
areaFormEntry ==
    RangeForm([OfficeEntry EXCEPT !.cliente = areaForm.selectedCliente,
                                  !.area = areaForm.areaCliente,
                                  !.dynamicAreas = areaForm.dynamicAreas],
              <<8, 0>>, <<13, 0>>)

\* handleSubmit of the time-range form on that entry (the Guardar button is
\* enabled once a client and an area are selected); after onSave the dialog
\* closes and the selects are reset
handleSubmitAreas(ok) ==
    LET f == areaFormEntry
        v == validateRange(f)
        horas == horasCalculadas(f.horaInicio, f.horaFin)
    IN  /\ dialogOpen
        /\ outcome = NoOutcome
        /\ areaForm.selectedCliente # ""
        /\ areaForm.areaCliente # ""
        /\ outcome' = Submitted(f, v, horas, selectedDate, editingRecord, ok,
                                IF v.reason = "ok" THEN saveRequest ELSE Null)
        /\ IF v.reason = "ok"
           THEN /\ handleSaveHours(horas, selectedDate, ok)
                /\ dialogOpen' = FALSE
                /\ areaForm' = NoAreaForm
           ELSE /\ ok
                /\ UNCHANGED <<hoursRecords, editingRecord, dialogOpen, areaForm>>
        /\ UNCHANGED <<selectedDate, requests>>
        /\ UNCHANGED notAreas

NextAreas ==
    \/ \E c \in clientes : handleClienteChange(c)
    \/ \E a \in AreaChoices : handleAreaChange(a)
    \/ \E q \in requests : AreasResolved(q)
    \/ \E q \in requests : AreasFailed(q)
    \/ \E ok \in BOOLEAN : handleSubmitAreas(ok)
    \/ clearWeeklyHoursError

SpecAreas == InitAreas /\ [][NextAreas]_vars

(* --------------------- properties of the entry form -------------------- *)
\* a step that is a submission; the form, verdict and saved hours are in outcome'
SubmitStep == outcome = NoOutcome /\ outcome' # NoOutcome

\* the hours recorded on day d, and in the week of d, not counting the record
\* being edited
dayTotalExcluding(d) ==
    SumHoras({i \in RecordIds : hoursRecords[i].fecha = d /\ i # editingRecord},
             hoursRecords)
weekTotalExcluding(d) ==
    SumHoras({i \in RecordIds : /\ isWithinInterval(hoursRecords[i].fecha,
                                                    startOfWeek(d), endOfWeek(d))
                                /\ i # editingRecord},
             hoursRecords)

\* C4: a candidate of h hours on day d is accepted only if the day is open
\* (its configured maximum is not 0) and S + h <= max, S being the hours
\* already recorded on d without the record being edited.
C4_DailyCeiling ==
    [][(SubmitStep /\ outcome'.accepted)
           => /\ activeDailyLimits(getDay(selectedDate)) # 0
              /\ dayTotalExcluding(selectedDate) + outcome'.horas
                     <= activeDailyLimits(getDay(selectedDate))]_vars

\* C5: a candidate of h hours on date d is accepted only if W + h <= the
\* weekly limit, W being the hours recorded in the Monday-Sunday week of d
\* without the record being edited.
C5_WeeklyCeiling ==
    [][(SubmitStep /\ outcome'.accepted)
           => weekTotalExcluding(selectedDate) + outcome'.horas <= activeWeeklyLimit]_vars

LimitReasons == {"dia_cerrado", "limite_diario", "limite_diario_alcanzado", "limite_semanal"}

\* C6: when a record whose day and week are within the current limits is
\* edited and resubmitted with the same hours on the same date, neither the
\* daily nor the weekly check rejects it, and the hour-count form with client
\* and area filled in accepts it.
C6_SameHoursPass ==
    [][(/\ SubmitStep
        /\ editingRecord # 0
        /\ selectedDate = recordToEdit.fecha
        /\ outcome'.horas = recordToEdit.horas
        /\ getDailyHours(selectedDate) <= activeDailyLimits(getDay(selectedDate))
        /\ getWeeklyHours(selectedDate) <= activeWeeklyLimit)
           => /\ outcome'.reason \notin LimitReasons
              /\ (/\ formKind = "hours"
                  /\ outcome'.form.cliente \in clientes
                  /\ outcome'.form.area # "") => outcome'.accepted]_vars

\* the rejected Tuesday record was resubmitted with its six hours through the
\* hour-count form, which checked the limits and saved it
C6_Witness ==
    /\ formKind = "hours"
    /\ outcome # NoOutcome
    /\ outcome.accepted
    /\ outcome.saved
    /\ outcome.editing = 2
    /\ outcome.fecha = EntryList[2].fecha
    /\ outcome.horas = EntryList[2].horas
    /\ hoursRecords[2].aprobado = Pending

\* C7: an entry accepted through the time-range form has both times, its end
\* after its start, and hours = (end - start) / 60 > 0; a candidate with both
\* times and end <= start is not accepted and nothing is saved, and when client
\* and area are filled in and the client is known the reason is the
\* invalid-range message.
C7_RangeOrdered ==
    [][(SubmitStep /\ formKind = "range")
           => LET f == outcome'.form
                  ini == timeToMinutes(f.horaInicio)
                  fin == timeToMinutes(f.horaFin)
              IN  /\ outcome'.accepted
                        => /\ f.horaInicio # NoTime /\ f.horaFin # NoTime
                           /\ fin > ini
                           /\ outcome'.horas = (fin - ini) * UnitsPerMinute
                           /\ outcome'.horas > 0
                  /\ hoursRecords' # hoursRecords => outcome'.accepted
                  /\ (f.horaInicio # NoTime /\ f.horaFin # NoTime /\ fin <= ini)
                        => /\ ~outcome'.accepted
                           /\ hoursRecords' = hoursRecords
                           /\ (f.cliente \in clientes /\ f.area # "")
                                 => outcome'.reason = "hora_fin_posterior"]_vars

\* a range 08:00-17:00 was accepted and saved as a new record of nine hours
C7_Witness ==
    /\ formKind = "range"
    /\ outcome # NoOutcome
    /\ outcome.accepted
    /\ outcome.saved
    /\ outcome.editing = 0
    /\ outcome.form.horaInicio = <<8, 0>>
    /\ outcome.form.horaFin = <<17, 0>>
    /\ hoursRecords[Len(hoursRecords)].horas = Hours(9)
\* a step that appends a record to the dashboard's list: an entry was created
CreateStep == Len(hoursRecords') > Len(hoursRecords)

\* C17: an entry created in the operative dashboard starts Pending: its local
\* record has aprobado 0 and the create request names no status, leaving the
\* store's initial one; an entry a coordinator records in the coordinator
\* dashboard starts Approved, in the request and in the local record; no
\* creation gives Rejected or ApprovedNormalOnly.
C17_CreatedStatus ==
    [][CreateStep
          => LET new == hoursRecords'[Len(hoursRecords')]
                 sent == outcome'.request
             IN  /\ SubmitStep
                 /\ outcome'.accepted
                 /\ sent.kind = "create"
                 /\ actor = "operative"
                        => new.aprobado = Pending /\ sent.aprobado = NoStatus
                 /\ actor = "coordinator"
                        => new.aprobado = Approved /\ sent.aprobado = Approved
                 /\ new.aprobado \notin {Rejected, ApprovedNormalOnly}
                 /\ sent.aprobado \notin {Rejected, ApprovedNormalOnly}]_vars

\* the coordinator has recorded hours of their own: the new record is Approved
C17_Witness ==
    /\ actor = "coordinator"
    /\ outcome.accepted
    /\ outcome.saved
    /\ outcome.request = [kind |-> "create", aprobado |-> Approved]
    /\ Len(hoursRecords) = Len(EntryList) + 1
    /\ hoursRecords[Len(hoursRecords)].aprobado = Approved

\* the hours a candidate asks for: typed in, or the length of its range
CandidateHours(f) ==
    IF formKind = "hours" THEN f.horas
    ELSE IF f.horaInicio = NoTime \/ f.horaFin = NoTime THEN 0
    ELSE horasCalculadas(f.horaInicio, f.horaFin)

\* the first check of the stated order a candidate violates (0: none): 1 client
\* and area given and the area one of the client's, 2 end after start, 3 a
\* description, 4 the daily ceiling, 5 the weekly ceiling, 6 the on-site
\* evidence; the hour-count form has no times, description or evidence
FirstViolated(f) ==
    IF \/ f.cliente = "" \/ f.area = ""
       \/ f.cliente \notin clientes \/ f.area \notin areasOf(f.cliente) THEN 1
    ELSE IF formKind = "range" /\ CandidateHours(f) <= 0 THEN 2
    ELSE IF formKind = "range" /\ f.descripcion = "" THEN 3
    ELSE IF \/ activeDailyLimits(getDay(selectedDate)) = 0
            \/ dayTotalExcluding(selectedDate) + CandidateHours(f)
                   > activeDailyLimits(getDay(selectedDate)) THEN 4
    ELSE IF weekTotalExcluding(selectedDate) + CandidateHours(f) > activeWeeklyLimit THEN 5
    ELSE IF formKind = "range" /\ f.tipoActividad = "En Cliente"
            /\ (~f.ubicacion \/ ~f.firma) THEN 6
    ELSE 0

\* the failure reasons of each check, and acceptance when none is violated
ReasonsOfCheck(k) ==
    IF k = 1 THEN {"cliente_no_encontrado", "area_no_disponible"}
    ELSE IF k = 2 THEN {"falta_hora", "hora_fin_posterior"}
    ELSE IF k = 3 THEN {"descripcion_obligatoria"}
    ELSE IF k = 4 THEN {"dia_cerrado", "limite_diario_alcanzado", "limite_diario"}
    ELSE IF k = 5 THEN {"limite_semanal"}
    ELSE IF k = 6 THEN {"requiere_ubicacion", "requiere_firma"}
    ELSE {"ok"}

\* C18: a submission is answered with the failure reason of the first check
\* it violates, in the order client/area, end after start, description, daily
\* ceiling, weekly ceiling, on-site evidence (and accepted when it violates
\* none); in the hour-count form the candidate has a positive hour count.
C18_CheckOrder ==
    [][(SubmitStep /\ (formKind = "hours" => outcome'.form.horas > 0))
           => outcome'.reason \in ReasonsOfCheck(FirstViolated(outcome'.form))]_vars

\* C19: an accepted entry has a client and an area, the area being one of the
\* areas of that client; a candidate of the time-range form that passes the
\* checks before the area test with an area that is not one of its client's is
\* refused with the area-mismatch reason, and nothing is recorded.
C19_AreaOfClient ==
    [][SubmitStep
          => LET f == outcome'.form
             IN  /\ outcome'.accepted
                        => /\ f.cliente # "" /\ f.area # ""
                           /\ f.cliente \in clientes
                           /\ f.area \in areasOf(f.cliente)
                 /\ (/\ formKind = "range"
                     /\ f.cliente \in clientes /\ f.area # ""
                     /\ f.area \notin areasOf(f.cliente)
                     /\ f.horaInicio # NoTime /\ f.horaFin # NoTime
                     /\ ~invalidRange(f.horaInicio, f.horaFin)
                     /\ f.descripcion # "")
                        => /\ outcome'.reason = "area_no_disponible"
                           /\ hoursRecords' = hoursRecords]_vars

\* C20: an accepted entry of the time-range form whose activity is 'En
\* Cliente' carries a location and a signature; an on-site candidate that
\* passes the other checks and lacks either one is refused with an
\* evidence-missing reason.
C20_OnSiteEvidence ==
    [][(SubmitStep /\ formKind = "range" /\ outcome'.form.tipoActividad = "En Cliente")
          => LET f == outcome'.form
             IN  /\ outcome'.accepted => (f.ubicacion /\ f.firma)
                 /\ (/\ validateRange([f EXCEPT !.ubicacion = TRUE, !.firma = TRUE]).reason
                            = "ok"
                     /\ (~f.ubicacion \/ ~f.firma))
                        => outcome'.reason \in {"requiere_ubicacion", "requiere_firma"}]_vars

\* C21: no entry is created with a work date after the current date: the
\* entry dialog never opens on a future day, and the record a save adds to
\* the list has a date not after today.
C21_NoFutureWorkDate ==
    [][/\ (~dialogOpen /\ dialogOpen') => selectedDate' <= Today
       /\ CreateStep => hoursRecords'[Len(hoursRecords')].fecha <= Today]_vars

\* a record created from a clicked day of the current week
C21_Witness ==
    /\ Len(hoursRecords) > Len(EntryList)
    /\ hoursRecords[Len(hoursRecords)].fecha = 8
    /\ outcome # NoOutcome /\ outcome.accepted /\ outcome.saved

\* C25: every step that closes the entry dialog (Cancelar, dismissal, or a
\* submission that is saved) leaves no edit target, so an accepted
\* submission that updates a record is one made from the dialog the edit
\* button opened, on that record's date, never one made from a clicked day.
C25_EditTargetCleared ==
    [][/\ (dialogOpen /\ ~dialogOpen') => editingRecord' = 0
       /\ (SubmitStep /\ outcome'.accepted /\ outcome'.editing # 0)
             => outcome'.fecha = hoursRecords[outcome'.editing].fecha]_vars

\* the hours the store holds on day d, and in the Monday-Sunday week of d
storedDayTotal(d) ==
    SumHoras({i \in 1 .. Len(store) : store[i].fecha = d}, store)
storedWeekTotal(d) ==
    SumHoras({i \in 1 .. Len(store) :
                 isWithinInterval(store[i].fecha, startOfWeek(d), endOfWeek(d))}, store)
\* the entries created since the dashboard was opened
CreatedIds == (Len(EntryList) + 1) .. Len(store)

\* C26: once the saves under way have been answered, the local list holds
\* every record the store holds, with its hours, and the day and the week of
\* every entry created are within the daily and weekly ceilings, also when a
\* submission was made while an earlier save was under way.
C26_ConcurrentSaves ==
    requests = {}
        => /\ Len(hoursRecords) = Len(store)
           /\ \A i \in 1 .. Len(store) :
                  i <= Len(hoursRecords) => hoursRecords[i].horas = store[i].horas
           /\ \A i \in CreatedIds :
                  /\ storedDayTotal(store[i].fecha) <= activeDailyLimits(getDay(store[i].fecha))
                  /\ storedWeekTotal(store[i].fecha) <= activeWeeklyLimit

\* C29: the area list a submission of the time-range form is checked
\* against is the list of the client selected at that moment, whatever area
\* requests were issued before and in whatever order they were answered.
C29_AreasOfSelectedClient ==
    [][(SubmitStep /\ formKind = "range" /\ outcome'.form.cliente \in clientes)
          => clienteAreas(outcome'.form) = areasOf(outcome'.form.cliente)]_vars

====
